---- MODULE Spec2Model ----
(***************************************************************************)
(* Model of the rendering and synchronization core of forge_cli            *)
(* (src/src/forge_cli/__init__.py): the two synchronizers (SpecSync), the  *)
(* steps of the update command (Spec) and the rendering of a command       *)
(* template (SpecRender).                                                  *)
(*                                                                         *)
(* The project directory is a filesystem: `fs` maps the path of every      *)
(* regular file (a tuple of path components relative to the project root)  *)
(* to its content and modification time, `dirs` is the set of directories. *)
(* File contents are sequences of one-character strings, so that the text  *)
(* operations of the code (startswith, find, replace, lstrip) are computed *)
(* as the code computes them.  The agent registry is modelled for six of   *)
(* its seventeen keys: claude (plain markdown, context file in the root),  *)
(* gemini (TOML), copilot (agent manifest), cursor-agent (context file     *)
(* with a synthetic frontmatter header), opencode and codex (which share   *)
(* AGENTS.md).  Every other key differs from one of these by names only.   *)
(***************************************************************************)
EXTENDS Integers, Sequences, FiniteSets, TLC

VARIABLES
    fs,      \* project files: path -> [content, mtime, x]
    dirs,    \* project directories: set of paths
    clock,   \* the time of the latest filesystem event
    agents,  \* the agent list handed to the synchronizers (all_agents)
    src,     \* the source tree the command reads (bundled or downloaded)
    opts,    \* the command's options
    pc,      \* position of the running command
    last,    \* what the last operation reported and did
    snap     \* the project files and directories before the last operation

vars == <<fs, dirs, clock, agents, src, opts, pc, last, snap>>

(***************************************************************************)
(* Bounds of the model.                                                    *)
(***************************************************************************)
\* longest installed-agent list
MaxAgents == 3
\* modification times of the files of an initial state range over 1..MaxMtime
MaxMtime == 2
\* operations (passes, edits, interrupted passes) per behaviour
MaxOps == 4
\* user edits per behaviour
MaxEdits == 1
\* interrupted passes per behaviour
MaxCuts == 1
\* working files in an initial state
MaxFiles == 3

(***************************************************************************)
(* Sequences and paths.                                                    *)
(***************************************************************************)
Range(s) == {s[i] : i \in 1..Len(s)}

IsPrefix(p, q) == Len(p) <= Len(q) /\ SubSeq(q, 1, Len(p)) = p

\* the path and all its ancestors below the root
Ancestors(p) == {SubSeq(p, 1, k) : k \in 1..Len(p)}

Parent(p) == SubSeq(p, 1, Len(p) - 1)

\* Path.exists()
PathExists(f, d, p) == p \in DOMAIN f \/ p \in d

\* Path.mkdir(parents=True, exist_ok=True)
Mkdirs(d, p) == d \cup Ancestors(p)

\* a regular file: its bytes, its modification time, and whether it has an
\* execute permission bit
File(c, t) == [content |-> c, mtime |-> t, x |-> FALSE]

\* Path.write_text / write_bytes at time t: the file is created or truncated
\* (an existing file keeps its permission bits)
WriteFile(f, p, c, t) ==
    [q \in (DOMAIN f) \cup {p} |->
        IF q # p THEN f[q]
        ELSE IF p \in DOMAIN f THEN [File(c, t) EXCEPT !.x = f[p].x]
        ELSE File(c, t)]

\* the files of f under directory p
Under(f, p) == {q \in DOMAIN f : IsPrefix(p, q) /\ q # p}

\* a removal that leaves the files where they are
RmTreeFilesKept(f, p) == f

\* shutil.rmtree(p)
RmTreeFiles(f, p) == [q \in {x \in DOMAIN f : ~IsPrefix(p, x)} |-> f[q]]
RmTreeDirs(d, p) == {x \in d : ~IsPrefix(p, x)}

NoFiles == [q \in {} |-> File(<<>>, 0)]

\* all sequences without repetition over S of length 1..n
RECURSIVE Lists(_, _)
Lists(S, n) ==
    IF n = 0 THEN {<<>>}
    ELSE LET shorter == Lists(S, n - 1)
         IN  shorter \cup {Append(l, a) : l \in shorter, a \in S}

DistinctLists(S, n) ==
    {l \in Lists(S, n) : Len(l) >= 1 /\ Cardinality(Range(l)) = Len(l)}

(***************************************************************************)
(* The agent registry.                                                     *)
(***************************************************************************)
AgentKeys == {"claude", "gemini", "copilot", "cursor-agent", "opencode", "codex"}

\* AGENT_CONFIG[key]["folder"].rstrip("/")
AgentFolder(a) ==
    CASE a = "copilot"      -> ".github"
      [] a = "claude"       -> ".claude"
      [] a = "gemini"       -> ".gemini"
      [] a = "cursor-agent" -> ".cursor"
      [] a = "opencode"     -> ".opencode"
      [] a = "codex"        -> ".codex"

\* AGENT_CONTEXT_PATHS: the context file of each agent, relative to the project
AGENT_CONTEXT_PATHS(a) ==
    CASE a = "claude"       -> <<"CLAUDE.md">>
      [] a = "gemini"       -> <<"GEMINI.md">>
      [] a = "copilot"      -> <<".github", "agents", "copilot-instructions.md">>
      [] a = "cursor-agent" -> <<".cursor", "rules", "specify-rules.mdc">>
      [] a = "opencode"     -> <<"AGENTS.md">>
      [] a = "codex"        -> <<"AGENTS.md">>

(***************************************************************************)
(* Context wrapper: _extract_markdown_body and _format_context_for_agent.  *)
(***************************************************************************)
Dashes == <<"-", "-", "-">>

StartsWith(s, pre) == Len(s) >= Len(pre) /\ SubSeq(s, 1, Len(pre)) = pre

\* str.find(sub, start): the least 0-based index >= start where sub occurs, or -1
Find(s, sub, start) ==
    LET hits == {i \in start..(Len(s) - Len(sub)) :
                    SubSeq(s, i + 1, i + Len(sub)) = sub}
    IN  IF hits = {} THEN -1
        ELSE CHOOSE i \in hits : \A j \in hits : i <= j

\* str.lstrip("\n")
RECURSIVE LStripNewlines(_)
LStripNewlines(s) ==
    IF s # <<>> /\ Head(s) = "\n" THEN LStripNewlines(Tail(s)) ELSE s

\* s[i:] for a 0-based index i
From(s, i) == SubSeq(s, i + 1, Len(s))

extract_markdown_body(content) ==
    IF StartsWith(content, Dashes)
    THEN LET end_idx == Find(content, Dashes, 3)
         IN  IF end_idx # -1 THEN LStripNewlines(From(content, end_idx + 3))
             ELSE content
    ELSE content

\* "---\ndescription: SpecForge project context\nglobs: \n---\n\n"; the two
\* header lines, which hold no dash, are written as the one character "H"
CursorHeader == <<"-", "-", "-", "\n", "H", "\n", "-", "-", "-", "\n", "\n">>

format_context_for_agent(agent_key, body) ==
    IF agent_key = "cursor-agent" THEN CursorHeader \o body ELSE body

(***************************************************************************)
(* sync_context_files: last-modified-wins propagation of the context file. *)
(* Paths are relative to one project root and hold no symbolic link, so a  *)
(* path is its own resolved form.  Every write happens at a fresh instant  *)
(* later than every modification time on disk.                             *)
(***************************************************************************)
\* "resolved in seen_paths": seen_paths maps a resolved path to the first agent
AlreadySeen(seen_paths, agent_key, resolved) == resolved \in DOMAIN seen_paths

\* one iteration of the discovery loop
DiscoverStep(f, acc, agent_key) ==
    LET full_path == AGENT_CONTEXT_PATHS(agent_key)
    IN  IF full_path \notin DOMAIN f THEN acc
        ELSE IF AlreadySeen(acc.seen_paths, agent_key, full_path) THEN acc
        ELSE [seen_paths |-> (full_path :> agent_key) @@ acc.seen_paths,
              context_files |->
                  Append(acc.context_files,
                         [agent |-> agent_key, path |-> full_path,
                          mtime |-> f[full_path].mtime])]

RECURSIVE DiscoverLoop(_, _, _)
DiscoverLoop(f, acc, installed_agents) ==
    IF installed_agents = <<>> THEN acc
    ELSE DiscoverLoop(f, DiscoverStep(f, acc, Head(installed_agents)),
                      Tail(installed_agents))

\* context_files after the discovery loop, in insertion order
ContextCandidates(f, installed_agents) ==
    DiscoverLoop(f, [seen_paths |-> <<>>, context_files |-> <<>>],
                 installed_agents).context_files

\* min instead of max: the first candidate among those of least mtime
OldestByMtime(cands) ==
    LET best == CHOOSE i \in 1..Len(cands) :
                    /\ \A j \in 1..Len(cands) : cands[j].mtime >= cands[i].mtime
                    /\ \A j \in 1..(i - 1) : cands[j].mtime > cands[i].mtime
    IN  cands[best]

\* the last candidate among those of greatest mtime
LastByMtime(cands) ==
    LET best == CHOOSE i \in 1..Len(cands) :
                    /\ \A j \in 1..Len(cands) : cands[j].mtime <= cands[i].mtime
                    /\ \A j \in (i + 1)..Len(cands) : cands[j].mtime < cands[i].mtime
    IN  cands[best]

\* max(cands, key=mtime): the first candidate among those of greatest mtime
MaxByMtime(cands) ==
    LET best == CHOOSE i \in 1..Len(cands) :
                    /\ \A j \in 1..Len(cands) : cands[j].mtime <= cands[i].mtime
                    /\ \A j \in 1..(i - 1) : cands[j].mtime < cands[i].mtime
    IN  cands[best]

\* shared files told apart by agent key: no two keys are equal
AlreadySyncedByKey(synced_targets, agent_key, resolved_target) == FALSE

\* "resolved_target in synced_targets"
AlreadySynced(synced_targets, agent_key, resolved_target) ==
    resolved_target \in synced_targets

\* an iteration that tests for the target's existence after writing it
PropagateStepLateTest(acc, agent_key, newest, body_content) ==
    LET target_path == AGENT_CONTEXT_PATHS(agent_key)
    IN  IF target_path = newest.path THEN acc
        ELSE IF AlreadySynced(acc.synced_targets, agent_key, target_path) THEN acc
        ELSE [acc EXCEPT
                !.synced_targets = @ \cup {target_path},
                !.dirs = Mkdirs(@, Parent(target_path)),
                !.fs = WriteFile(@, target_path,
                                 format_context_for_agent(agent_key, body_content),
                                 acc.clock + 1),
                !.clock = @ + 1,
                !.synced = @ + 1,
                !.writes = Append(@, [path |-> target_path,
                                      agent |-> agent_key,
                                      from |-> newest.agent])]

\* one iteration of the propagation loop
PropagateStep(acc, agent_key, newest, body_content) ==
    LET target_path == AGENT_CONTEXT_PATHS(agent_key)
    IN  IF target_path = newest.path THEN acc
        ELSE IF AlreadySynced(acc.synced_targets, agent_key, target_path) THEN acc
        ELSE LET is_new == ~PathExists(acc.fs, acc.dirs, target_path)
                 formatted == format_context_for_agent(agent_key, body_content)
             IN  [acc EXCEPT
                    !.synced_targets = @ \cup {target_path},
                    !.dirs = Mkdirs(@, Parent(target_path)),
                    !.fs = WriteFile(@, target_path, formatted, acc.clock + 1),
                    !.clock = @ + 1,
                    !.created = IF is_new THEN @ + 1 ELSE @,
                    !.synced = @ + 1,
                    !.writes = Append(@, [path |-> target_path,
                                          agent |-> agent_key,
                                          from |-> newest.agent])]

RECURSIVE PropagateLoop(_, _, _, _)
PropagateLoop(acc, installed_agents, newest, body_content) ==
    IF installed_agents = <<>> THEN acc
    ELSE PropagateLoop(PropagateStep(acc, Head(installed_agents), newest, body_content),
                       Tail(installed_agents), newest, body_content)

\* discovery and propagation in one loop: each agent's file is compared with
\* the candidates found up to that agent, on the files as they are by then
RECURSIVE MergedLoop(_, _, _)
MergedLoop(acc, installed_agents, i) ==
    IF i > Len(installed_agents) THEN acc
    ELSE LET cands == ContextCandidates(acc.fs, SubSeq(installed_agents, 1, i))
         IN  IF cands = <<>> THEN MergedLoop(acc, installed_agents, i + 1)
             ELSE LET newest == MaxByMtime(cands)
                      body == extract_markdown_body(acc.fs[newest.path].content)
                      marked == IF acc.winners # <<>> THEN acc
                                ELSE [acc EXCEPT !.winners =
                                        <<[sub |-> <<"context">>, rel |-> <<>>,
                                           agent |-> newest.agent,
                                           path |-> newest.path]>>]
                  IN  MergedLoop(PropagateStep(marked, installed_agents[i], newest, body),
                                 installed_agents, i + 1)

ContextPassMerged(installed_agents, f, d, now, upto) ==
    MergedLoop([fs |-> f, dirs |-> d, clock |-> now, synced |-> 0,
                created |-> 0, synced_targets |-> {}, writes |-> <<>>,
                winners |-> <<>>],
               SubSeq(installed_agents, 1, upto), 1)

\* a pass that, finding no candidate, goes on with an empty body
ContextPassSeeded(installed_agents, f, d, now, upto) ==
    LET context_files == ContextCandidates(f, installed_agents)
        start == [fs |-> f, dirs |-> d, clock |-> now, synced |-> 0,
                  created |-> 0, synced_targets |-> {}, writes |-> <<>>,
                  winners |-> <<>>]
        newest == IF context_files = <<>>
                  THEN [agent |-> "none", path |-> <<>>, mtime |-> 0]
                  ELSE MaxByMtime(context_files)
        body_content == IF context_files = <<>> THEN <<>>
                        ELSE extract_markdown_body(f[newest.path].content)
    IN  PropagateLoop([start EXCEPT !.winners =
                          <<[sub |-> <<"context">>, rel |-> <<>>,
                             agent |-> newest.agent, path |-> newest.path]>>],
                      SubSeq(installed_agents, 1, upto), newest, body_content)

\* the pass, its propagation loop run for the first `upto` agents of the list
\* (all of them in a complete pass)
ContextPass(installed_agents, f, d, now, upto) ==
    LET context_files == ContextCandidates(f, installed_agents)
        start == [fs |-> f, dirs |-> d, clock |-> now, synced |-> 0,
                  created |-> 0, synced_targets |-> {}, writes |-> <<>>,
                  winners |-> <<>>]
    IN  IF context_files = <<>> THEN start
        ELSE LET newest == MaxByMtime(context_files)
                 newest_content == f[newest.path].content
                 body_content == extract_markdown_body(newest_content)
             IN  PropagateLoop([start EXCEPT !.winners =
                                   <<[sub |-> <<"context">>, rel |-> <<>>,
                                      agent |-> newest.agent,
                                      path |-> newest.path]>>],
                               SubSeq(installed_agents, 1, upto), newest, body_content)

sync_context_files(installed_agents, f, d, now) ==
    ContextPass(installed_agents, f, d, now, Len(installed_agents))

(***************************************************************************)
(* sync_agent_working_files: per-file last-modified-wins propagation of    *)
(* the skills and agents/specforge subtrees of the agent folders.          *)
(***************************************************************************)
\* sync_subdirs
SyncSubdirs == << <<"skills">>, <<"agents", "specforge">> >>

\* project_path / agent_folder / subdir
WorkingDir(agent_key, subdir) == <<AgentFolder(agent_key)>> \o subdir

\* a set as a sequence, in a fixed order (the order in which rglob yields files)
RECURSIVE SeqOf(_)
SeqOf(S) ==
    IF S = {} THEN <<>>
    ELSE LET x == CHOOSE y \in S : TRUE IN <<x>> \o SeqOf(S \ {x})

\* working_dir.rglob("*") filtered by is_file(), as paths relative to working_dir
RelFiles(f, d, working_dir) ==
    IF working_dir \notin d THEN <<>>
    ELSE SeqOf({From(q, Len(working_dir)) : q \in Under(f, working_dir)})

IndexOfRel(all_files, rel) ==
    IF \E i \in 1..Len(all_files) : all_files[i].rel = rel
    THEN CHOOSE i \in 1..Len(all_files) : all_files[i].rel = rel
    ELSE 0

\* all_files[rel_str].append((agent_key, file_path, mtime))
CollectFile(f, all_files, agent_key, working_dir, rel) ==
    LET entry == [agent |-> agent_key, path |-> working_dir \o rel,
                  mtime |-> f[working_dir \o rel].mtime]
        i == IndexOfRel(all_files, rel)
    IN  IF i = 0 THEN Append(all_files, [rel |-> rel, sources |-> <<entry>>])
        ELSE [all_files EXCEPT ![i].sources = Append(@, entry)]

RECURSIVE CollectAgent(_, _, _, _, _)
CollectAgent(f, all_files, agent_key, working_dir, rels) ==
    IF rels = <<>> THEN all_files
    ELSE CollectAgent(f, CollectFile(f, all_files, agent_key, working_dir, Head(rels)),
                      agent_key, working_dir, Tail(rels))

\* the collection loop of one subdir over all agents
RECURSIVE CollectAll(_, _, _, _, _)
CollectAll(f, d, all_files, installed_agents, subdir) ==
    IF installed_agents = <<>> THEN all_files
    ELSE LET working_dir == WorkingDir(Head(installed_agents), subdir)
         IN  CollectAll(f, d,
                        CollectAgent(f, all_files, Head(installed_agents), working_dir,
                                     RelFiles(f, d, working_dir)),
                        Tail(installed_agents), subdir)

\* absence taken as a deletion to respect: a missing target is skipped too
TargetAbsentOrUpToDate(f, target_path, newest_mtime) ==
    target_path \notin DOMAIN f \/ f[target_path].mtime >= newest_mtime

\* "skip if the target exists", the modification times not compared
TargetExistsOnly(f, target_path, newest_mtime) == target_path \in DOMAIN f

\* a skip for strictly newer targets only
TargetStrictlyNewer(f, target_path, newest_mtime) ==
    target_path \in DOMAIN f /\ f[target_path].mtime > newest_mtime

\* "target_path.exists() and target_path.stat().st_mtime >= newest_mtime"
TargetUpToDate(f, target_path, newest_mtime) ==
    target_path \in DOMAIN f /\ f[target_path].mtime >= newest_mtime

\* shutil.copystat(source, target): the target takes the source's mtime and
\* permission bits
CopyStatSkipped(f, source, target) == f

CopyStat(f, source, target) ==
    [f EXCEPT ![target].mtime = f[source].mtime, ![target].x = f[source].x]

\* One iteration of the inner loop.  acc.fuel is the number of writes the run
\* still completes (negative: a complete run); the run stops at the write after
\* them: before it, or with acc.half between its write_bytes and its copystat.
WorkTargetStep(acc, subdir, entry, newest, newest_content, agent_key) ==
    LET target_path == WorkingDir(agent_key, subdir) \o entry.rel
    IN  IF acc.stopped THEN acc
        ELSE IF agent_key = newest.agent THEN acc
        ELSE IF TargetUpToDate(acc.fs, target_path, newest.mtime) THEN acc
        ELSE IF acc.fuel = 0
             THEN IF acc.half
                  THEN [acc EXCEPT
                         !.stopped = TRUE,
                         !.dirs = Mkdirs(@, Parent(target_path)),
                         !.fs = WriteFile(@, target_path, newest_content,
                                          acc.clock + 1),
                         !.clock = @ + 1]
                  ELSE [acc EXCEPT !.stopped = TRUE]
             ELSE [acc EXCEPT
                    !.fuel = IF @ > 0 THEN @ - 1 ELSE @,
                    !.dirs = Mkdirs(@, Parent(target_path)),
                    !.fs = CopyStat(WriteFile(@, target_path, newest_content,
                                              acc.clock + 1),
                                    newest.path, target_path),
                    !.clock = @ + 1,
                    !.synced = @ + 1,
                    !.writes = Append(@, [path |-> target_path,
                                          agent |-> agent_key,
                                          from |-> newest.agent])]

RECURSIVE WorkTargetLoop(_, _, _, _, _, _)
WorkTargetLoop(acc, subdir, entry, newest, newest_content, installed_agents) ==
    IF installed_agents = <<>> THEN acc
    ELSE WorkTargetLoop(
             WorkTargetStep(acc, subdir, entry, newest, newest_content,
                            Head(installed_agents)),
             subdir, entry, newest, newest_content, Tail(installed_agents))

\* an iteration that takes the copy of the agent that holds the newest file
\* of the whole subtree, when that agent holds this file
WorkRelStepByAgent(acc, subdir, entry, installed_agents) ==
    IF acc.stopped THEN acc
    ELSE LET all_files == CollectAll(acc.fs, acc.dirs, <<>>, installed_agents, subdir)
             every == UNION {Range(all_files[i].sources) : i \in 1..Len(all_files)}
             top == CHOOSE x \in every : \A y \in every : y.mtime <= x.mtime
             own == {i \in 1..Len(entry.sources) : entry.sources[i].agent = top.agent}
             newest == IF own = {} THEN MaxByMtime(entry.sources)
                       ELSE entry.sources[CHOOSE i \in own : TRUE]
         IN  WorkTargetLoop(
                 [acc EXCEPT !.winners =
                      Append(@, [sub |-> subdir, rel |-> entry.rel,
                                 agent |-> newest.agent,
                                 path |-> newest.path])],
                 subdir, entry, newest, acc.fs[newest.path].content,
                 installed_agents)

\* one iteration of "for rel_str, sources in all_files.items()"
WorkRelStep(acc, subdir, entry, installed_agents) ==
    IF acc.stopped THEN acc
    ELSE LET newest == MaxByMtime(entry.sources)
             newest_content == acc.fs[newest.path].content
         IN  WorkTargetLoop(
                 [acc EXCEPT !.winners =
                      Append(@, [sub |-> subdir, rel |-> entry.rel,
                                 agent |-> newest.agent,
                                 path |-> newest.path])],
                 subdir, entry, newest, newest_content, installed_agents)

RECURSIVE WorkRelLoop(_, _, _, _)
WorkRelLoop(acc, subdir, all_files, installed_agents) ==
    IF all_files = <<>> THEN acc
    ELSE WorkRelLoop(WorkRelStep(acc, subdir, Head(all_files), installed_agents),
                     subdir, Tail(all_files), installed_agents)

\* one iteration of "for subdir in sync_subdirs"
WorkSubdirStep(acc, subdir, installed_agents) ==
    WorkRelLoop(acc, subdir,
                CollectAll(acc.fs, acc.dirs, <<>>, installed_agents, subdir),
                installed_agents)

RECURSIVE WorkSubdirLoop(_, _, _)
WorkSubdirLoop(acc, subdirs, installed_agents) ==
    IF subdirs = <<>> THEN acc
    ELSE WorkSubdirLoop(WorkSubdirStep(acc, Head(subdirs), installed_agents),
                        Tail(subdirs), installed_agents)

WorkingPass(installed_agents, f, d, now, fuel, half) ==
    WorkSubdirLoop([fs |-> f, dirs |-> d, clock |-> now, synced |-> 0,
                    created |-> 0, synced_targets |-> {}, writes |-> <<>>,
                    winners |-> <<>>, fuel |-> fuel, half |-> half,
                    stopped |-> FALSE],
                   SyncSubdirs, installed_agents)

sync_agent_working_files(installed_agents, f, d, now) ==
    WorkingPass(installed_agents, f, d, now, -1, FALSE)

(***************************************************************************)
(* SpecSync: the two synchronizers on an arbitrary project.  A behaviour   *)
(* studies one synchronizer (pc): complete passes, passes interrupted      *)
(* after some of their writes, and user edits between passes.              *)
(***************************************************************************)
\* the agents of the sync behaviours; gemini and copilot behave like claude
SyncAgents == {"claude", "cursor-agent", "opencode", "codex"}
WorkOrder == <<"claude", "cursor-agent", "opencode", "codex">>

Tag(a) ==
    CASE a = "claude" -> "c" [] a = "gemini" -> "g" [] a = "copilot" -> "p"
      [] a = "cursor-agent" -> "r" [] a = "opencode" -> "o" [] a = "codex" -> "x"

ContextPathsOf(l) == {AGENT_CONTEXT_PATHS(a) : a \in Range(l)}

\* contents of an initial context file at path p: plain text, or text with a
\* blank first line (CLAUDE.md), or text after a frontmatter block (the others)
ContextShapes(p) ==
    LET t == Tag(CHOOSE a \in AgentKeys : AGENT_CONTEXT_PATHS(a) = p)
    IN  { <<t>>,
          IF p = <<"CLAUDE.md">> THEN <<"\n", t>>
          ELSE <<"-", "-", "-", "\n", "k", "\n", "-", "-", "-", "\n", t>> }

\* every placement of context files on the context paths of the agents of l
ContextProjects(l) ==
    UNION { [S -> {File(c, t) : c \in UNION {ContextShapes(p) : p \in ContextPathsOf(l)},
                                t \in 1..MaxMtime}]
            : S \in SUBSET ContextPathsOf(l) }

WellShaped(l, f) == \A p \in DOMAIN f : f[p].content \in ContextShapes(p)

\* the relative paths of the working files of the model
WorkSlots ==
    { [sub |-> <<"skills">>, rel |-> <<"x", "y.txt">>],
      [sub |-> <<"skills">>, rel |-> <<"z.md">>],
      [sub |-> <<"agents", "specforge">>, rel |-> <<"x", "y.txt">>] }

\* the working file the user edits
EditedSlot == [sub |-> <<"skills">>, rel |-> <<"x", "y.txt">>]

WorkPath(a, slot) == WorkingDir(a, slot.sub) \o slot.rel

WorkPathsOf(l) == {WorkPath(a, s) : a \in Range(l), s \in WorkSlots}

WorkOwner(l, p) == CHOOSE a \in Range(l) : \E s \in WorkSlots : WorkPath(a, s) = p

\* every placement of at most MaxFiles working files, each agent's copies
\* holding that agent's own bytes
WorkProjects(l) ==
    UNION { [S -> {File(<<"v", Tag(a)>>, t) : a \in Range(l), t \in 1..MaxMtime}]
            : S \in {T \in SUBSET WorkPathsOf(l) : Cardinality(T) <= MaxFiles} }

OwnBytes(l, f) ==
    \A p \in DOMAIN f : f[p].content = <<"v", Tag(WorkOwner(l, p))>>

DirsOf(f) == UNION {Ancestors(Parent(p)) : p \in DOMAIN f}

\* the synchronizers read no source tree and no option
NoSource ==
    [has_bundled |-> FALSE, bundled |-> [files |-> NoFiles, dirs |-> {}],
     archive |-> [status |-> "error", files |-> NoFiles, dirs |-> {}]]
NoOpts == [script_type |-> "sh", skip_sync |-> FALSE, force_download |-> FALSE]

IsCut(op) == op \in {"context-cut", "working-cut"}

\* What each agent is to hold once a pass that started here has completed:
\* the canonical content of the winner of each synchronized file, by the
\* file's path inside an agent folder (<<"context">> for the context file).
GoalOf(op) ==
    LET ws == IF op = "context-cut"
              THEN sync_context_files(agents, fs, dirs, clock).winners
              ELSE sync_agent_working_files(agents, fs, dirs, clock).winners
    IN  [k \in {ws[i].sub \o ws[i].rel : i \in 1..Len(ws)} |->
            LET w == ws[CHOOSE i \in 1..Len(ws) : ws[i].sub \o ws[i].rel = k]
            IN  IF op = "context-cut" THEN extract_markdown_body(fs[w.path].content)
                ELSE fs[w.path].content]

\* the report of operation op with result r; goal is kept from an interrupted
\* pass until the next edit or deletion by the user
Report(op, r) ==
    [op |-> op, prev |-> last.op, n |-> last.n + 1,
     hist |-> Append(last.hist, op),
     edits |-> last.edits + (IF op \in {"edit", "delete"} THEN 1 ELSE 0),
     cuts |-> last.cuts + (IF IsCut(op) THEN 1 ELSE 0),
     ok |-> TRUE, synced |-> r.synced, created |-> r.created,
     writes |-> r.writes, winners |-> r.winners,
     goal |-> IF IsCut(op) THEN GoalOf(op)
              ELSE IF op \in {"edit", "delete"} THEN <<>> ELSE last.goal,
     cmd_errors |-> <<>>, oks |-> last.oks]

NoReport ==
    [op |-> "none", prev |-> "none", n |-> 0, hist |-> <<>>, edits |-> 0, cuts |-> 0,
     ok |-> TRUE, synced |-> 0, created |-> 0, writes |-> <<>>, winners |-> <<>>,
     goal |-> <<>>, cmd_errors |-> <<>>, oks |-> <<>>]

NoResult == [synced |-> 0, created |-> 0, writes |-> <<>>, winners |-> <<>>]

InitSync ==
    /\ pc \in {"context", "working"}
    /\ IF pc = "context"
       THEN /\ agents \in DistinctLists(SyncAgents, MaxAgents)
            /\ fs \in ContextProjects(agents)
            /\ WellShaped(agents, fs)
       ELSE /\ agents \in {SubSeq(WorkOrder, 1, n) : n \in 2..MaxAgents}
            /\ fs \in WorkProjects(agents)
            /\ OwnBytes(agents, fs)
    /\ dirs = DirsOf(fs)
    /\ clock = MaxMtime
    /\ src = NoSource
    /\ opts = NoOpts
    /\ last = NoReport
    /\ snap = [fs |-> fs, dirs |-> dirs]

Apply(op, r) ==
    /\ fs' = r.fs
    /\ dirs' = r.dirs
    /\ clock' = r.clock
    /\ last' = Report(op, r)
    /\ snap' = [fs |-> fs, dirs |-> dirs]
    /\ UNCHANGED <<agents, src, opts, pc>>

\* a complete pass of sync_context_files
SyncContextFiles ==
    /\ pc = "context"
    /\ last.n < MaxOps
    /\ Apply("context", sync_context_files(agents, fs, dirs, clock))

\* a pass of sync_context_files that stops before a write it was to make
SyncContextFilesCut ==
    /\ pc = "context"
    /\ last.n < MaxOps
    /\ last.cuts < MaxCuts
    /\ \E upto \in 0..(Len(agents) - 1) :
         LET r == ContextPass(agents, fs, dirs, clock, upto)
         IN  /\ r.synced < sync_context_files(agents, fs, dirs, clock).synced
             /\ Apply("context-cut", r)

\* the user rewrites the context file of one agent
EditContext ==
    /\ pc = "context"
    /\ last.n < MaxOps
    /\ last.edits < MaxEdits
    /\ \E p \in DOMAIN fs :
         Apply("edit", [NoResult EXCEPT !.writes = <<[path |-> p, agent |-> "user",
                                                      from |-> "user"]>>]
                       @@ [fs |-> WriteFile(fs, p, <<"e">>, clock + 1),
                           dirs |-> dirs, clock |-> clock + 1])

\* a complete pass of sync_agent_working_files
SyncWorkingFiles ==
    /\ pc = "working"
    /\ last.n < MaxOps
    /\ Apply("working", sync_agent_working_files(agents, fs, dirs, clock))

\* a pass of sync_agent_working_files that stops at one of its writes: before
\* it, or between its write_bytes and its copystat
SyncWorkingFilesCut ==
    /\ pc = "working"
    /\ last.n < MaxOps
    /\ last.cuts < MaxCuts
    /\ LET full == sync_agent_working_files(agents, fs, dirs, clock)
       IN  \E done \in 0..(full.synced - 1), half \in BOOLEAN :
             Apply("working-cut", WorkingPass(agents, fs, dirs, clock, done, half))

\* the user rewrites one agent's copy of skills/x/y.txt
EditWorking ==
    /\ pc = "working"
    /\ last.n < MaxOps
    /\ last.edits < MaxEdits
    /\ \E a \in Range(agents) :
         LET p == WorkPath(a, EditedSlot)
         IN  /\ p \in DOMAIN fs
             /\ Apply("edit", [NoResult EXCEPT !.writes = <<[path |-> p, agent |-> "user",
                                                             from |-> "user"]>>]
                              @@ [fs |-> WriteFile(fs, p, <<"e">>, clock + 1),
                                  dirs |-> dirs, clock |-> clock + 1])

\* the user deletes one agent's copy of skills/x/y.txt
DeleteWorking ==
    /\ pc = "working"
    /\ last.n < MaxOps
    /\ last.edits < MaxEdits
    /\ \E a \in Range(agents) :
         LET p == WorkPath(a, EditedSlot)
         IN  /\ p \in DOMAIN fs
             /\ Apply("delete", [NoResult EXCEPT !.writes = <<[path |-> p, agent |-> "user",
                                                               from |-> "user"]>>]
                                @@ [fs |-> [q \in DOMAIN fs \ {p} |-> fs[q]],
                                    dirs |-> dirs, clock |-> clock])

NextSync ==
    \/ SyncContextFiles
    \/ SyncContextFilesCut
    \/ EditContext
    \/ SyncWorkingFiles
    \/ SyncWorkingFilesCut
    \/ EditWorking
    \/ DeleteWorking

SpecSync == InitSync /\ [][NextSync]_vars

(***************************************************************************)
(* Text operations of the renderer, on sequences of characters.            *)
(***************************************************************************)
\* a replacement that stops after the first occurrence
ReplaceOnce(s, old, new) ==
    LET i == Find(s, old, 0)
    IN  IF i = -1 THEN s
        ELSE SubSeq(s, 1, i) \o new \o From(s, i + Len(old))

\* str.replace(old, new): every occurrence, leftmost first, non-overlapping
RECURSIVE Replace(_, _, _)
Replace(s, old, new) ==
    LET i == Find(s, old, 0)
    IN  IF i = -1 THEN s
        ELSE SubSeq(s, 1, i) \o new \o Replace(From(s, i + Len(old)), old, new)

\* str.split("\n")
RECURSIVE SplitLines(_)
SplitLines(s) ==
    LET i == Find(s, <<"\n">>, 0)
    IN  IF i = -1 THEN <<s>>
        ELSE <<SubSeq(s, 1, i)>> \o SplitLines(From(s, i + 1))

\* "\n".join(lines)
RECURSIVE JoinLines(_)
JoinLines(lines) ==
    IF lines = <<>> THEN <<>>
    ELSE IF Len(lines) = 1 THEN lines[1]
    ELSE lines[1] \o <<"\n">> \o JoinLines(Tail(lines))

\* the characters \s matches
Whitespace == {" ", "\t", "\n", "\r"}

\* str.rstrip()
RECURSIVE RStrip(_)
RStrip(s) ==
    IF s # <<>> /\ s[Len(s)] \in Whitespace THEN RStrip(SubSeq(s, 1, Len(s) - 1))
    ELSE s

\* the 0-based index of the first character of the line that holds index q
LineStart(s, q) ==
    LET nl == {i \in 0..(q - 1) : s[i + 1] = "\n"}
    IN  IF nl = {} THEN 0 ELSE 1 + CHOOSE i \in nl : \A j \in nl : j <= i

\* the least index >= k that holds no whitespace, or Len(s)
SkipWhitespace(s, k) ==
    LET stops == {r \in k..Len(s) : r = Len(s) \/ s[r + 1] \notin Whitespace}
    IN  CHOOSE r \in stops : \A j \in stops : r <= j

\* the least index >= r that holds a newline, or Len(s)
LineEnd(s, r) ==
    LET stops == {e \in r..Len(s) : e = Len(s) \/ s[e + 1] = "\n"}
    IN  CHOOSE e \in stops : \A j \in stops : e <= j

\* The match of  key\s*(.+)$  with key at index q: the group, stripped.  When
\* only whitespace follows the key up to the end of the text, \s* gives back
\* a character other than a newline to the group, if there is one.
KeyMatch(s, q, key) ==
    LET k == q + Len(key)
        r == SkipWhitespace(s, k)
    IN  IF r < Len(s)
        THEN [hit |-> TRUE, group |-> RStrip(SubSeq(s, r + 1, LineEnd(s, r)))]
        ELSE [hit |-> \E t \in k..(r - 1) : s[t + 1] # "\n", group |-> <<>>]

\* re.search(r'^key\s*(.+)$', s, re.MULTILINE), or r'^\s*key\s*(.+)$' when
\* leading: group(1).strip() of the leftmost match, "" when there is none
SearchKey(s, key, leading) ==
    LET at == {q \in 0..(Len(s) - Len(key)) :
                  /\ SubSeq(s, q + 1, q + Len(key)) = key
                  /\ IF leading
                     THEN \A i \in LineStart(s, q)..(q - 1) : s[i + 1] \in Whitespace
                     ELSE LineStart(s, q) = q
                  /\ KeyMatch(s, q, key).hit}
    IN  IF at = {} THEN <<>>
        ELSE KeyMatch(s, CHOOSE q \in at : \A j \in at : q <= j, key).group

(***************************************************************************)
(* The registry entries the renderer reads: AGENT_CONFIG and               *)
(* AGENT_COMMAND_DIRS.                                                     *)
(***************************************************************************)

\* the agent key, as characters
AgentKeyChars(a) ==
    CASE a = "claude"       -> <<"c", "l", "a", "u", "d", "e">>
      [] a = "gemini"       -> <<"g", "e", "m", "i", "n", "i">>
      [] a = "copilot"      -> <<"c", "o", "p", "i", "l", "o", "t">>
      [] a = "cursor-agent" -> <<"c", "u", "r", "s", "o", "r", "-", "a", "g", "e", "n", "t">>
      [] a = "opencode"     -> <<"o", "p", "e", "n", "c", "o", "d", "e">>
      [] a = "codex"        -> <<"c", "o", "d", "e", "x">>

\* AGENT_CONFIG[key]["folder"].rstrip("/"), as characters
AgentDirChars(a) ==
    CASE a = "claude"       -> <<".", "c", "l", "a", "u", "d", "e">>
      [] a = "gemini"       -> <<".", "g", "e", "m", "i", "n", "i">>
      [] a = "copilot"      -> <<".", "g", "i", "t", "h", "u", "b">>
      [] a = "cursor-agent" -> <<".", "c", "u", "r", "s", "o", "r">>
      [] a = "opencode"     -> <<".", "o", "p", "e", "n", "c", "o", "d", "e">>
      [] a = "codex"        -> <<".", "c", "o", "d", "e", "x">>

\* AGENT_CONFIG[key]["name"]
AgentName(a) ==
    CASE a = "claude"       -> <<"C", "l", "a", "u", "d", "e", " ", "C", "o", "d", "e">>
      [] a = "gemini"       -> <<"G", "e", "m", "i", "n", "i", " ", "C", "L", "I">>
      [] a = "copilot"      -> <<"G", "i", "t", "H", "u", "b", " ", "C", "o", "p", "i", "l", "o", "t">>
      [] a = "cursor-agent" -> <<"C", "u", "r", "s", "o", "r">>
      [] a = "opencode"     -> <<"o", "p", "e", "n", "c", "o", "d", "e">>
      [] a = "codex"        -> <<"C", "o", "d", "e", "x", " ", "C", "L", "I">>

\* AGENT_CONFIG[key]["context_file"]
AgentContextFile(a) ==
    CASE a = "claude"       -> <<"C", "L", "A", "U", "D", "E", ".", "m", "d">>
      [] a = "gemini"       -> <<"G", "E", "M", "I", "N", "I", ".", "m", "d">>
      [] a = "copilot"      -> <<"c", "o", "p", "i", "l", "o", "t", "-", "i", "n", "s", "t", "r", "u", "c", "t", "i", "o", "n", "s", ".", "m", "d">>
      [] a = "cursor-agent" -> <<"s", "p", "e", "c", "i", "f", "y", "-", "r", "u", "l", "e", "s", ".", "m", "d", "c">>
      [] a = "opencode"     -> <<"A", "G", "E", "N", "T", "S", ".", "m", "d">>
      [] a = "codex"        -> <<"A", "G", "E", "N", "T", "S", ".", "m", "d">>

\* AGENT_CONFIG[key]["context_glob"]
AgentContextGlob(a) ==
    CASE a = "claude"       -> <<"*", "*", "/", "*", "C", "L", "A", "U", "D", "E", ".", "m", "d">>
      [] a = "gemini"       -> <<"*", "*", "/", "*", "G", "E", "M", "I", "N", "I", ".", "m", "d">>
      [] a = "copilot"      -> <<"*", "*", "/", "*", "c", "o", "p", "i", "l", "o", "t", "-", "i", "n", "s", "t", "r", "u", "c", "t", "i", "o", "n", "s", ".", "m", "d">>
      [] a = "cursor-agent" -> <<"*", "*", "/", "*", "s", "p", "e", "c", "i", "f", "y", "-", "r", "u", "l", "e", "s", ".", "m", "d", "c">>
      [] a = "opencode"     -> <<"*", "*", "/", "*", "A", "G", "E", "N", "T", "S", ".", "m", "d">>
      [] a = "codex"        -> <<"*", "*", "/", "*", "A", "G", "E", "N", "T", "S", ".", "m", "d">>

\* AGENT_CONFIG[key]["project_dir_env"]
AgentProjectDirEnv(a) ==
    CASE a = "claude"       -> <<"$", "C", "L", "A", "U", "D", "E", "_", "P", "R", "O", "J", "E", "C", "T", "_", "D", "I", "R">>
      [] a = "gemini"       -> <<"$", "P", "W", "D">>
      [] a = "copilot"      -> <<"$", "P", "W", "D">>
      [] a = "cursor-agent" -> <<"$", "P", "W", "D">>
      [] a = "opencode"     -> <<"$", "P", "W", "D">>
      [] a = "codex"        -> <<"$", "P", "W", "D">>

\* AGENT_COMMAND_DIRS[key][0]: the command directory, relative to the project
CommandDir(a) ==
    CASE a = "claude"       -> <<".claude", "commands">>
      [] a = "gemini"       -> <<".gemini", "commands">>
      [] a = "copilot"      -> <<".github", "agents">>
      [] a = "cursor-agent" -> <<".cursor", "commands">>
      [] a = "opencode"     -> <<".opencode", "command">>
      [] a = "codex"        -> <<".codex", "prompts">>

\* AGENT_COMMAND_DIRS[key][1]: the wrapper kind
FileExt(a) ==
    CASE a = "claude"       -> "md"
      [] a = "gemini"       -> "toml"
      [] a = "copilot"      -> "agent.md"
      [] a = "cursor-agent" -> "md"
      [] a = "opencode"     -> "md"
      [] a = "codex"        -> "md"

\* AGENT_COMMAND_DIRS[key][2]: the argument placeholder
ArgFormat(a) ==
    CASE a = "claude"       -> <<"$", "A", "R", "G", "U", "M", "E", "N", "T", "S">>
      [] a = "gemini"       -> <<"{", "{", "a", "r", "g", "s", "}", "}">>
      [] a = "copilot"      -> <<"$", "A", "R", "G", "U", "M", "E", "N", "T", "S">>
      [] a = "cursor-agent" -> <<"$", "A", "R", "G", "U", "M", "E", "N", "T", "S">>
      [] a = "opencode"     -> <<"$", "A", "R", "G", "U", "M", "E", "N", "T", "S">>
      [] a = "codex"        -> <<"$", "A", "R", "G", "U", "M", "E", "N", "T", "S">>

(***************************************************************************)
(* The literal strings of the renderer.                                    *)
(***************************************************************************)

\* '__AGENT_DIR__'
TOK_AGENT_DIR ==
    <<"_", "_", "A", "G", "E", "N", "T", "_", "D", "I", "R", "_", "_">>

\* '__AGENT_NAME__'
TOK_AGENT_NAME ==
    <<"_", "_", "A", "G", "E", "N", "T", "_", "N", "A", "M", "E", "_", "_">>

\* '__AGENT_CONTEXT_FILE__'
TOK_AGENT_CONTEXT_FILE ==
    <<"_", "_", "A", "G", "E", "N", "T", "_", "C", "O", "N", "T", "E", "X",
      "T", "_", "F", "I", "L", "E", "_", "_">>

\* '__AGENT_CONTEXT_GLOB__'
TOK_AGENT_CONTEXT_GLOB ==
    <<"_", "_", "A", "G", "E", "N", "T", "_", "C", "O", "N", "T", "E", "X",
      "T", "_", "G", "L", "O", "B", "_", "_">>

\* '__AGENT_PROJECT_DIR_ENV__'
TOK_AGENT_PROJECT_DIR_ENV ==
    <<"_", "_", "A", "G", "E", "N", "T", "_", "P", "R", "O", "J", "E", "C",
      "T", "_", "D", "I", "R", "_", "E", "N", "V", "_", "_">>

\* '__AGENT__'
TOK_AGENT ==
    <<"_", "_", "A", "G", "E", "N", "T", "_", "_">>

\* 'description = "'
TOML_HEAD ==
    <<"d", "e", "s", "c", "r", "i", "p", "t", "i", "o", "n", " ", "=", " ",
      "\"">>

\* '"\n\nprompt = """\n'
TOML_MID ==
    <<"\"", "\n", "\n", "p", "r", "o", "m", "p", "t", " ", "=", " ", "\"",
      "\"", "\"", "\n">>

\* '\n"""\n'
TOML_TAIL ==
    <<"\n", "\"", "\"", "\"", "\n">>

(***************************************************************************)
(* generate_agent_commands: the rendering of one command template.         *)
(***************************************************************************)
\* content.replace("\r\n", "\n").replace("\r", "\n")
NormalizeNewlines(content) ==
    Replace(Replace(content, <<"\r", "\n">>, <<"\n">>), <<"\r">>, <<"\n">>)

\* re.search(r'^description:\s*(.+)$', content, re.MULTILINE)
Description(content) ==
    SearchKey(content, <<"d","e","s","c","r","i","p","t","i","o","n",":">>, FALSE)

\* re.search(rf'^\s*{script_variant}:\s*(.+)$', content, re.MULTILINE)
ScriptCommand(content, script_variant) ==
    SearchKey(content, IF script_variant = "sh" THEN <<"s","h",":">> ELSE <<"p","s",":">>, TRUE)

\* a header test that knows scripts: only
IsSectionHeaderScripts(line) ==
    /\ StartsWith(line, <<"s","c","r","i","p","t","s",":">>)
    /\ \A i \in 9..Len(line) : line[i] \in Whitespace

\* re.match(r'^scripts:\s*$', line) or re.match(r'^agent_scripts:\s*$', line)
IsSectionHeader(line) ==
    \E key \in {<<"s","c","r","i","p","t","s",":">>,
                <<"a","g","e","n","t","_","s","c","r","i","p","t","s",":">>} :
        /\ StartsWith(line, key)
        /\ \A i \in (Len(key) + 1)..Len(line) : line[i] \in Whitespace

\* the loop that drops the scripts: and agent_scripts: sections
RECURSIVE FilterSections(_, _)
FilterSections(lines, skip_section) ==
    IF lines = <<>> THEN <<>>
    ELSE LET line == Head(lines)
         IN  IF IsSectionHeader(line) THEN FilterSections(Tail(lines), TRUE)
             ELSE IF skip_section /\ StartsWith(line, <<" ", " ">>)
                  THEN FilterSections(Tail(lines), TRUE)
             ELSE LET skip == IF /\ skip_section
                                 /\ \/ StartsWith(line, Dashes)
                                    \/ line # <<>> /\ ~StartsWith(line, <<" ">>)
                              THEN FALSE ELSE skip_section
                  IN  (IF skip THEN <<>> ELSE <<line>>)
                          \o FilterSections(Tail(lines), skip)

StripSections(content) == JoinLines(FilterSections(SplitLines(content), FALSE))

\* the substitutions, in the order of the code
Substitute(ai_assistant, content) ==
    LET c1 == Replace(content, <<"{","A","R","G","S","}">>, ArgFormat(ai_assistant))
        c2 == Replace(c1, TOK_AGENT_DIR, AgentDirChars(ai_assistant))
        c3 == Replace(c2, TOK_AGENT_NAME, AgentName(ai_assistant))
        c4 == Replace(c3, TOK_AGENT_CONTEXT_FILE, AgentContextFile(ai_assistant))
        c5 == Replace(c4, TOK_AGENT_CONTEXT_GLOB, AgentContextGlob(ai_assistant))
        c6 == Replace(c5, TOK_AGENT_PROJECT_DIR_ENV, AgentProjectDirEnv(ai_assistant))
    IN  Replace(c6, TOK_AGENT, AgentKeyChars(ai_assistant))

\* the backquote character (U+0060), which a TLA+ string cannot hold
Backquote == "backquote"

\* a lookbehind that leaves the quotes out
LookBehindNoQuote == Whitespace \cup {Backquote}

\* the characters of the lookbehind: whitespace, backquote, double and single
\* quote
LookBehind == Whitespace \cup {Backquote, "\"", "'"}

\* the indices >= k where (/?)word/ matches and the previous character (""
\* at the start of the text) is in `after`
RewriteHits(s, k, word, after) ==
    {i \in k..(Len(s) - 1) :
        /\ (IF i = 0 THEN "" ELSE s[i]) \in after
        /\ \/ StartsWith(From(s, i), <<"/">> \o word \o <<"/">>)
           \/ StartsWith(From(s, i), word \o <<"/">>)}

\* re.sub of (/?)word/ by .specforge/word/ from index k on: the matches
\* leftmost first, none overlapping another
RECURSIVE RewriteFrom(_, _, _, _)
RewriteFrom(s, k, word, after) ==
    LET hits == RewriteHits(s, k, word, after)
        i == CHOOSE h \in hits : \A g \in hits : h <= g
        n == IF s[i + 1] = "/" THEN Len(word) + 2 ELSE Len(word) + 1
    IN  IF hits = {} THEN From(s, k)
        ELSE SubSeq(s, k + 1, i)
                 \o <<".","s","p","e","c","f","o","r","g","e","/">> \o word \o <<"/">>
                 \o RewriteFrom(s, i + n, word, after)

\* the two re.sub calls for one of memory, scripts, templates
RewriteWord(content, word) ==
    RewriteFrom(RewriteFrom(content, 0, word, {"", "\n"}), 0, word, LookBehind)

rewrite_paths_for_bundled(content) ==
    RewriteWord(RewriteWord(RewriteWord(content, <<"m","e","m","o","r","y">>),
                            <<"s","c","r","i","p","t","s">>),
                <<"t","e","m","p","l","a","t","e","s">>)

\* the wrapper of the output: TOML for toml agents, the content otherwise
WrapOutput(ai_assistant, description, content) ==
    IF FileExt(ai_assistant) = "toml"
    THEN TOML_HEAD \o description \o TOML_MID
             \o Replace(content, <<"\\">>, <<"\\", "\\">>) \o TOML_TAIL
    ELSE content

\* output_content for a template whose line endings are normalized
RenderNormalized(ai_assistant, script_type, content) ==
    WrapOutput(ai_assistant, Description(content),
               rewrite_paths_for_bundled(
                   Substitute(ai_assistant,
                       StripSections(
                           Replace(content, <<"{","S","C","R","I","P","T","}">>,
                                   ScriptCommand(content, script_type))))))

\* output_content of one template_file for one agent
CommandOutput(ai_assistant, script_type, raw) ==
    RenderNormalized(ai_assistant, script_type, NormalizeNewlines(raw))

\* output_file of the template called name
CommandFile(ai_assistant, name) ==
    CommandDir(ai_assistant)
        \o << "specforge." \o name \o
              (CASE FileExt(ai_assistant) = "toml"     -> ".toml"
                 [] FileExt(ai_assistant) = "agent.md" -> ".agent.md"
                 [] OTHER                             -> ".md") >>

(***************************************************************************)
(* Source trees and copies.  A tree is [files, dirs] with paths relative   *)
(* to its root: the bundled resources, or an extracted archive.            *)
(***************************************************************************)
NoTree == [files |-> NoFiles, dirs |-> {}]

\* f with the files of g over it
Overlay(f, g) ==
    [q \in (DOMAIN f) \cup (DOMAIN g) |-> IF q \in DOMAIN g THEN g[q] ELSE f[q]]

\* Path.iterdir(): the entries of directory dir of a tree
Items(tree, dir) ==
    {p \in (DOMAIN tree.files) \cup tree.dirs :
        Len(p) = Len(dir) + 1 /\ IsPrefix(dir, p)}

\* the last component of a path
Name(p) == p[Len(p)]

\* shutil.copy2(item, dest): content, modification time and permission bits
\* are the source's; when dest is a directory the copy lands inside it
Copy2Target(d, dest, name) == IF dest \in d THEN Append(dest, name) ELSE dest

\* shutil.copy2 of each file of S (files of one directory) to destdir / name
CopyFiles(f, d, tree, S, destdir) ==
    Overlay(f, [q \in {Copy2Target(d, Append(destdir, Name(p)), Name(p)) : p \in S} |->
                   tree.files[CHOOSE p \in S :
                       Copy2Target(d, Append(destdir, Name(p)), Name(p)) = q]])

\* shutil.copytree(srcroot, dest, dirs_exist_ok=True): files
CopyTreeFiles(f, tree, srcroot, dest) ==
    Overlay(f, [q \in {dest \o From(p, Len(srcroot)) : p \in Under(tree.files, srcroot)} |->
                   tree.files[srcroot \o From(q, Len(dest))]])

\* shutil.copytree(srcroot, dest, dirs_exist_ok=True): directories
CopyTreeDirs(d, tree, srcroot, dest) ==
    Mkdirs(d, dest)
        \cup {dest \o From(x, Len(srcroot)) : x \in {y \in tree.dirs : IsPrefix(srcroot, y)}}

(***************************************************************************)
(* .vscode/settings.json: handle_vscode_settings and merge_json_files.     *)
(* A JSON text is a sequence of tokens: "{" and "}", key names, numbers    *)
(* and whole arrays (an array is never looked into by the merge).  The     *)
(* text {"a": 1, "b": {"a": [1]}} is <<"{","a","1","b","{","a","[1]","}",  *)
(* "}">>; white space is left out but for one closing newline.             *)
(***************************************************************************)
JsonKeyNames == {"a", "b", "c"}

JsonScalars == {"1", "2"}

JsonArrays == {"[1]", "[2]"}

\* the text without its closing newline
StripNL(c) ==
    IF c # <<>> /\ c[Len(c)] = "\n" THEN SubSeq(c, 1, Len(c) - 1) ELSE c

\* as many "{" as "}" in c[i..j]
Balanced(c, i, j) ==
    Cardinality({k \in i..j : c[k] = "{"}) = Cardinality({k \in i..j : c[k] = "}"})

\* the index of the "}" that closes the "{" at i, or 0
Match(c, i) ==
    IF \E j \in (i + 1)..Len(c) : Balanced(c, i, j)
    THEN CHOOSE j \in (i + 1)..Len(c) :
             /\ Balanced(c, i, j)
             /\ \A k \in (i + 1)..(j - 1) : ~Balanced(c, i, k)
    ELSE 0

\* the index where the value that starts at i ends, or 0
ValueEnd(c, i) ==
    IF i > Len(c) THEN 0
    ELSE IF c[i] \in JsonScalars \cup JsonArrays THEN i
    ELSE IF c[i] = "{" THEN Match(c, i)
    ELSE 0

RECURSIVE IsMembers(_)
RECURSIVE IsValue(_)
\* c is one JSON value
IsValue(c) ==
    /\ Len(c) >= 1
    /\ IF Len(c) = 1 THEN c[1] \in JsonScalars \cup JsonArrays
       ELSE /\ c[1] = "{"
            /\ Match(c, 1) = Len(c)
            /\ IsMembers(SubSeq(c, 2, Len(c) - 1))

\* s is a sequence of key and value pairs
IsMembers(s) ==
    \/ s = <<>>
    \/ /\ Len(s) >= 2
       /\ s[1] \in JsonKeyNames
       /\ ValueEnd(s, 2) # 0
       /\ IsValue(SubSeq(s, 2, ValueEnd(s, 2)))
       /\ IsMembers(From(s, ValueEnd(s, 2)))

\* json.load succeeds
IsJson(c) == IsValue(StripNL(c))

\* isinstance(value, dict), for a value given as its tokens
IsDict(c) == c # <<>> /\ c[1] = "{"

\* the pairs of a members sequence as written, each value as its tokens
RECURSIVE RawEntries(_)
RawEntries(s) ==
    IF s = <<>> THEN <<>>
    ELSE <<[k |-> s[1], v |-> SubSeq(s, 2, ValueEnd(s, 2))]>>
             \o RawEntries(From(s, ValueEnd(s, 2)))

\* the position of key in a dict, or 0
KeyIndex(entries, key) ==
    IF \E i \in 1..Len(entries) : entries[i].k = key
    THEN CHOOSE i \in 1..Len(entries) : entries[i].k = key
    ELSE 0

\* result[key] = value: a known key keeps its place, a new one goes last
SetItem(entries, key, value) ==
    IF KeyIndex(entries, key) = 0 THEN Append(entries, [k |-> key, v |-> value])
    ELSE [entries EXCEPT ![KeyIndex(entries, key)].v = value]

RECURSIVE json_load(_)
RECURSIVE Canon(_)
RECURSIVE LoadPairs(_, _)
\* json.load of pairs: a key written twice keeps its last value
LoadPairs(acc, raw) ==
    IF raw = <<>> THEN acc
    ELSE LoadPairs(SetItem(acc, Head(raw).k, Canon(Head(raw).v)), Tail(raw))

\* json.load of the text of an object: its keys in order, each with its value
json_load(c) == LoadPairs(<<>>, RawEntries(SubSeq(c, 2, Len(c) - 1)))

RECURSIVE FlatEntries(_)
FlatEntries(entries) ==
    IF entries = <<>> THEN <<>>
    ELSE <<Head(entries).k>> \o Head(entries).v \o FlatEntries(Tail(entries))

\* json.dump of a dict
json_dump(entries) == <<"{">> \o FlatEntries(entries) \o <<"}">>

\* a value as json.dump writes it after json.load read it
Canon(c) == IF IsDict(c) THEN json_dump(json_load(c)) ELSE c

\* a merge that replaces the value of every key of update
RECURSIVE deep_mergeShallow(_, _)
deep_mergeShallow(base, update) ==
    IF update = <<>> THEN base
    ELSE deep_mergeShallow(SetItem(base, Head(update).k, Head(update).v),
                           Tail(update))

\* for key, value in update.items(): merge two dicts, else result[key] = value
RECURSIVE deep_merge(_, _)
deep_merge(base, update) ==
    IF update = <<>> THEN base
    ELSE deep_merge(
             IF /\ KeyIndex(base, Head(update).k) # 0
                /\ IsDict(base[KeyIndex(base, Head(update).k)].v)
                /\ IsDict(Head(update).v)
             THEN SetItem(base, Head(update).k,
                          json_dump(deep_merge(
                              json_load(base[KeyIndex(base, Head(update).k)].v),
                              json_load(Head(update).v))))
             ELSE SetItem(base, Head(update).k, Head(update).v),
             Tail(update))

\* deep_merge raises: base.copy() on a number, update.items() on a value that
\* is no dict, result[key] = value on a list
MergeRaises(existing, new_content) ==
    /\ IsJson(existing)
    /\ ~(IsDict(StripNL(existing)) /\ IsDict(new_content))
    /\ ~(StripNL(existing)[1] \in JsonArrays /\ new_content = <<"{", "}">>)

\* a merge that keeps an existing file it cannot read
merge_json_filesKeep(existing, new_content) ==
    IF ~IsJson(existing) THEN existing
    ELSE IF ~IsDict(StripNL(existing)) THEN StripNL(existing)
    ELSE json_dump(deep_merge(json_load(StripNL(existing)), json_load(new_content)))

\* merge_json_files(existing_path, new_content) where it does not raise
merge_json_files(existing, new_content) ==
    IF ~IsJson(existing) THEN new_content
    ELSE IF ~IsDict(StripNL(existing)) THEN StripNL(existing)
    ELSE json_dump(deep_merge(json_load(StripNL(existing)), json_load(new_content)))

\* handle_vscode_settings(sub_item, dest_file, ...): sub_item is a file record
handle_vscode_settings(f, d, now, sub_item, dest_file) ==
    IF /\ IsJson(sub_item.content)
       /\ dest_file \in DOMAIN f
       /\ ~MergeRaises(f[dest_file].content, Canon(StripNL(sub_item.content)))
    THEN [fs |-> WriteFile(f, dest_file,
                           merge_json_files(f[dest_file].content,
                                            Canon(StripNL(sub_item.content)))
                               \o <<"\n">>,
                           now + 1),
          clock |-> now + 1]
    ELSE [fs |-> Overlay(f, [q \in {dest_file} |-> sub_item]), clock |-> now]

(***************************************************************************)
(* generate_agent_commands: the files it writes.  File names are strings,  *)
(* so the names a glob selects are listed: the stems of the command        *)
(* templates, and the stems of the manifests found in .github/agents.      *)
(***************************************************************************)
\* stems of the files commands_source.glob("*.md") can yield
TemplateNames == {"plan", "tasks"}

\* stems <name> of the files output_dir.glob("specforge.*.agent.md") can yield
ManifestNames == TemplateNames \cup {"old"}

NameChars(name) ==
    CASE name = "plan"  -> <<"p", "l", "a", "n">>
      [] name = "tasks" -> <<"t", "a", "s", "k", "s">>
      [] name = "old"   -> <<"o", "l", "d">>

CommandsSource == <<"templates", "commands">>

\* commands_source.glob("*.md"), in a fixed order
CommandTemplates(bundled) ==
    SeqOf({n \in TemplateNames :
              Append(CommandsSource, n \o ".md") \in DOMAIN bundled.files})

\* output_file.write_text(output_content) at the next instant
WriteText(acc, path, content) ==
    [acc EXCEPT !.fs = WriteFile(@, path, content, acc.clock + 1), !.clock = @ + 1]

\* the loop over the command templates: one write_text per template
RECURSIVE WriteCommands(_, _, _, _, _)
WriteCommands(acc, ai_assistant, script_type, bundled, names) ==
    IF names = <<>> THEN acc
    ELSE WriteCommands(
             WriteText(acc, CommandFile(ai_assistant, Head(names)),
                       CommandOutput(ai_assistant, script_type,
                           bundled.files[Append(CommandsSource,
                                                Head(names) \o ".md")].content)),
             ai_assistant, script_type, bundled, Tail(names))

PromptsDir == <<".github", "prompts">>

\* stubs that hold the content of their manifest
RECURSIVE WriteStubsCopy(_, _)
WriteStubsCopy(acc, names) ==
    IF names = <<>> THEN acc
    ELSE WriteStubsCopy(
             WriteText(acc,
                       Append(PromptsDir, "specforge." \o Head(names) \o ".prompt.md"),
                       acc.fs[Append(CommandDir("copilot"),
                                     "specforge." \o Head(names) \o ".agent.md")].content),
             Tail(names))

\* the loop over output_dir.glob("specforge.*.agent.md"): one stub per manifest
RECURSIVE WriteStubs(_, _)
WriteStubs(acc, names) ==
    IF names = <<>> THEN acc
    ELSE WriteStubs(
             WriteText(acc,
                       Append(PromptsDir, "specforge." \o Head(names) \o ".prompt.md"),
                       <<"-","-","-","\n","a","g","e","n","t",":"," ">>
                           \o <<"s","p","e","c","f","o","r","g","e",".">>
                           \o NameChars(Head(names))
                           \o <<"\n","-","-","-","\n">>),
             Tail(names))

VscodeSettings == <<"templates", "vscode-settings.json">>

\* acc with the files and the clock of h
WithFiles(acc, h) == [acc EXCEPT !.fs = h.fs, !.clock = h.clock]

\* acc with directory p made
WithDir(acc, p) == [acc EXCEPT !.dirs = Mkdirs(@, p)]

\* "Create VS Code settings"
CopilotSettings(acc, bundled) ==
    IF VscodeSettings \in DOMAIN bundled.files
    THEN WithFiles(acc, handle_vscode_settings(acc.fs, acc.dirs, acc.clock,
                                               bundled.files[VscodeSettings],
                                               <<".vscode", "settings.json">>))
    ELSE acc

\* output_dir.glob("specforge.*.agent.md"), in a fixed order
Manifests(f) ==
    SeqOf({n \in ManifestNames :
              Append(CommandDir("copilot"), "specforge." \o n \o ".agent.md")
                  \in DOMAIN f})

\* the copilot-only block: prompt stubs and VS Code settings
CopilotFiles(acc, ai_assistant, bundled) ==
    IF ai_assistant = "copilot"
    THEN CopilotSettings(
             WithDir(WriteStubs(WithDir(acc, PromptsDir), Manifests(acc.fs)),
                     <<".vscode">>),
             bundled)
    ELSE acc

\* a target inside the memory subtree
StaticTargetInMemory(name) == <<".specforge", "memory", name>>

\* target_dir / f.name
StaticTarget(name) == <<name>>

\* the copy of the agent-specific files (GEMINI.md, ...) into the project root
StaticFiles(acc, ai_assistant, bundled) ==
    LET agent_specific_dir == <<"agent_templates", ai_assistant>>
        S == {p \in Items(bundled, agent_specific_dir) : p \in DOMAIN bundled.files}
        target(p) == Copy2Target(acc.dirs, StaticTarget(Name(p)), Name(p))
    IN  [acc EXCEPT
            !.fs = Overlay(@, [q \in {target(p) : p \in S} |->
                                  bundled.files[CHOOSE p \in S : target(p) = q]])]

\* a driver that makes the output directory before it looks at the source
generate_agent_commandsEager(ai_assistant, script_type, f, d, now, bundled) ==
    IF ai_assistant \notin AgentKeys
    THEN [ok |-> FALSE, fs |-> f, dirs |-> d, clock |-> now]
    ELSE IF ~PathExists(bundled.files, bundled.dirs, CommandsSource)
    THEN [ok |-> FALSE, fs |-> f, dirs |-> Mkdirs(d, CommandDir(ai_assistant)),
          clock |-> now]
    ELSE StaticFiles(
             CopilotFiles(
                 WriteCommands([ok |-> TRUE, fs |-> f,
                                dirs |-> Mkdirs(d, CommandDir(ai_assistant)),
                                clock |-> now],
                               ai_assistant, script_type, bundled,
                               CommandTemplates(bundled)),
                 ai_assistant, bundled),
             ai_assistant, bundled)

\* generate_agent_commands(ai_assistant, script_type, target_dir, bundled_path)
\* on project files f and directories d at time now
generate_agent_commands(ai_assistant, script_type, f, d, now, bundled) ==
    IF \/ ~PathExists(bundled.files, bundled.dirs, CommandsSource)
       \/ ai_assistant \notin AgentKeys
    THEN [ok |-> FALSE, fs |-> f, dirs |-> d, clock |-> now]
    ELSE StaticFiles(
             CopilotFiles(
                 WriteCommands([ok |-> TRUE, fs |-> f,
                                dirs |-> Mkdirs(d, CommandDir(ai_assistant)),
                                clock |-> now],
                               ai_assistant, script_type, bundled,
                               CommandTemplates(bundled)),
                 ai_assistant, bundled),
             ai_assistant, bundled)

(***************************************************************************)
(* update_shared_resources.                                                *)
(***************************************************************************)
\* the whole of specify_dir
ScriptsDestWhole == <<".specforge">>

\* specify_dir / "scripts"
ScriptsDest == <<".specforge", "scripts">>

\* specify_dir / "templates"
TemplatesDest == <<".specforge", "templates">>

\* nothing left out
SkippedItemsNone == {}

\* the entries of templates/ the bundled branch leaves out
SkippedItems == {"commands", "vscode-settings.json"}

\* the folder of the shell variant
VariantDir(script_type) ==
    CASE script_type = "sh" -> "bash"
      [] script_type = "ps" -> "powershell"
      [] OTHER              -> "none"

\* "for item in templates.iterdir()": files by copy2, directories by copytree,
\* leaving out the entries named in skipped
CopyItems(f, d, tree, templates, dest, skipped) ==
    LET items == {p \in Items(tree, templates) : Name(p) \notin skipped}
        top == {p \in items : p \in DOMAIN tree.files}
        sub == {p \in items : p \in tree.dirs}
        deep == {p \in DOMAIN tree.files : \E s \in sub : IsPrefix(s, p)}
        f1 == CopyFiles(f, d, tree, top, dest)
    IN  [fs |-> Overlay(f1, [q \in {dest \o From(p, Len(templates)) : p \in deep} |->
                                 tree.files[templates \o From(q, Len(dest))]]),
         dirs |-> Mkdirs(d, dest)
                      \cup {dest \o From(x, Len(templates)) :
                               x \in {y \in tree.dirs : \E s \in sub : IsPrefix(s, y)}}]

\* the branch "bundled_path and not force_download"
SharedFromBundled(f, d, script_type, bundled) ==
    LET scripts_dir == <<"scripts">>
        variant == <<"scripts", VariantDir(script_type)>>
        hasScripts == PathExists(bundled.files, bundled.dirs, scripts_dir)
        f1 == IF hasScripts THEN RmTreeFiles(f, ScriptsDest) ELSE f
        d1 == IF hasScripts THEN Mkdirs(RmTreeDirs(d, ScriptsDest), ScriptsDest) ELSE d
        hasVariant == hasScripts /\ PathExists(bundled.files, bundled.dirs, variant)
        f2 == IF hasVariant
              THEN CopyTreeFiles(f1, bundled, variant,
                                 Append(ScriptsDest, VariantDir(script_type)))
              ELSE f1
        d2 == IF hasVariant
              THEN CopyTreeDirs(d1, bundled, variant,
                                Append(ScriptsDest, VariantDir(script_type)))
              ELSE d1
        loose == {p \in Items(bundled, scripts_dir) : p \in DOMAIN bundled.files}
        f3 == IF hasScripts THEN CopyFiles(f2, d2, bundled, loose, ScriptsDest) ELSE f2
        t == IF PathExists(bundled.files, bundled.dirs, <<"templates">>)
             THEN CopyItems(f3, d2, bundled, <<"templates">>, TemplatesDest, SkippedItems)
             ELSE [fs |-> f3, dirs |-> d2]
    IN  [ok |-> TRUE, fs |-> t.fs, dirs |-> t.dirs]

\* source_dir: the single top-level directory of the extracted archive, if any
SourceDir(tree) ==
    LET extracted_items == Items(tree, <<>>)
    IN  IF Cardinality(extracted_items) = 1 /\ extracted_items \subseteq tree.dirs
        THEN CHOOSE p \in extracted_items : TRUE
        ELSE <<>>

\* the download branch; archive.status is "error" when the download or the
\* extraction raises
SharedFromArchive(f, d, archive) ==
    LET specforge_source == Append(SourceDir(archive), ".specforge")
        scripts_source == Append(specforge_source, "scripts")
        templates_source == Append(specforge_source, "templates")
        hasScripts == PathExists(archive.files, archive.dirs, scripts_source)
        f1 == IF hasScripts
              THEN CopyTreeFiles(RmTreeFiles(f, ScriptsDest), archive,
                                 scripts_source, ScriptsDest)
              ELSE f
        d1 == IF hasScripts
              THEN CopyTreeDirs(RmTreeDirs(d, ScriptsDest), archive,
                                scripts_source, ScriptsDest)
              ELSE d
        t == IF PathExists(archive.files, archive.dirs, templates_source)
             THEN CopyItems(f1, d1, archive, templates_source, TemplatesDest, {})
             ELSE [fs |-> f1, dirs |-> d1]
    IN  IF archive.status = "error" THEN [ok |-> FALSE, fs |-> f, dirs |-> d]
        ELSE IF ~PathExists(archive.files, archive.dirs, specforge_source)
        THEN [ok |-> FALSE, fs |-> f, dirs |-> d]
        ELSE [ok |-> TRUE, fs |-> t.fs, dirs |-> t.dirs]

\* update_shared_resources(project_path, script_type, bundled_path,
\* force_download=...); source.has_bundled is "bundled_path is not None"
update_shared_resources(f, d, script_type, source, force_download) ==
    IF source.has_bundled /\ ~force_download
    THEN SharedFromBundled(f, d, script_type, source.bundled)
    ELSE SharedFromArchive(f, d, source.archive)

(***************************************************************************)
(* ensure_executable_scripts, on a POSIX system.  The permission bits are  *)
(* one bit: whether the file has any execute bit.                          *)
(***************************************************************************)
\* names rglob("*.sh") selects
ShellNames == {"common.sh", "loose.sh"}

ensure_executable_scripts(f, d) ==
    LET scripts_root == ScriptsDest
        chmod == {p \in Under(f, scripts_root) :
                     /\ Name(p) \in ShellNames
                     /\ StartsWith(f[p].content, <<"#", "!">>)
                     /\ ~f[p].x}
    IN  IF scripts_root \notin d THEN [fs |-> f, updated |-> 0]
        ELSE [fs |-> [p \in DOMAIN f |->
                         IF p \in chmod THEN [f[p] EXCEPT !.x = TRUE] ELSE f[p]],
              updated |-> Cardinality(chmod)]

(***************************************************************************)
(* The `update` command: the project, the source it reads, its options.    *)
(***************************************************************************)
\* longest list of installed agents of an updated project
MaxInstalled == 2

\* the order in which detect_installed_agents lists the agents
UpdateOrder == <<"claude", "gemini", "copilot", "cursor-agent">>

\* all_agents: installed agents, in the order of detection
UpdateAgentLists ==
    {l \in DistinctLists(Range(UpdateOrder), MaxInstalled) :
        \A i, j \in 1..Len(l) :
            i < j => (CHOOSE k \in 1..Len(UpdateOrder) : UpdateOrder[k] = l[i])
                         < (CHOOSE k \in 1..Len(UpdateOrder) : UpdateOrder[k] = l[j])}

\* a command template: frontmatter with a description and a scripts: section,
\* and a body with placeholders and a path
PlanTemplate ==
    <<"-", "-", "-", "\n", "d", "e", "s", "c", "r", "i", "p", "t", "i", "o",
      "n", ":", " ", "P", "l", "a", "n", " ", "i", "t", "\n", "s", "c", "r",
      "i", "p", "t", "s", ":", "\n", " ", " ", "s", "h", ":", " ", "s", "c",
      "r", "i", "p", "t", "s", "/", "b", "a", "s", "h", "/", "c", "o", "m",
      "m", "o", "n", ".", "s", "h", "\n", " ", " ", "p", "s", ":", " ", "s",
      "c", "r", "i", "p", "t", "s", "/", "p", "o", "w", "e", "r", "s", "h",
      "e", "l", "l", "/", "c", "o", "m", "m", "o", "n", ".", "p", "s", "1",
      "\n", "-", "-", "-", "\n", "R", "u", "n", " ", "{", "S", "C", "R", "I",
      "P", "T", "}", " ", "{", "A", "R", "G", "S", "}", " ", "a", "s", " ",
      "_", "_", "A", "G", "E", "N", "T", "_", "_", " ", "i", "n", " ", "_",
      "_", "A", "G", "E", "N", "T", "_", "D", "I", "R", "_", "_", " ", "p",
      "e", "r", " ", "m", "e", "m", "o", "r", "y", "/", "c", "o", "n", "s",
      "t", "i", "t", "u", "t", "i", "o", "n", ".", "m", "d", "\n">>

\* the bundled resources of the package
BundledFull ==
    LET files ==
            <<"scripts", "bash", "common.sh">> :> File(<<"#", "!", "b">>, 1)
         @@ <<"scripts", "powershell", "common.ps1">> :> File(<<"p">>, 1)
         @@ <<"scripts", "loose.sh">> :> File(<<"#", "!", "l">>, 1)
         @@ <<"templates", "spec-template.md">> :> File(<<"S">>, 1)
         @@ <<"templates", "sub", "nested.md">> :> File(<<"N">>, 1)
         @@ <<"templates", "commands", "plan.md">> :> File(PlanTemplate, 1)
         @@ <<"templates", "vscode-settings.json">> :> File(<<"{", "a", "1", "}">>, 1)
         @@ <<"memory", "constitution.md">> :> File(<<"B", "m">>, 1)
         @@ <<"agent_templates", "gemini", "GEMINI.md">> :> File(<<"G">>, 1)
    IN  [files |-> files, dirs |-> DirsOf(files)]

\* bundled resources with templates only: no scripts, no command templates
BundledBare ==
    LET files ==
            <<"templates", "spec-template.md">> :> File(<<"S">>, 1)
         @@ <<"memory", "constitution.md">> :> File(<<"B", "m">>, 1)
    IN  [files |-> files, dirs |-> DirsOf(files)]

\* a downloaded archive with one top-level folder that holds .specforge
ArchiveFull ==
    LET files ==
            <<"pkg", ".specforge", "scripts", "bash", "common.sh">>
                :> File(<<"#", "!", "a">>, 1)
         @@ <<"pkg", ".specforge", "templates", "spec-template.md">> :> File(<<"T">>, 1)
         @@ <<"pkg", ".specforge", "templates", "commands", "plan.md">>
                :> File(<<"P">>, 1)
         @@ <<"pkg", ".specforge", "memory", "constitution.md">>
                :> File(<<"A", "m">>, 1)
         @@ <<"pkg", ".claude", "commands", "specforge.plan.md">> :> File(<<"C">>, 1)
    IN  [status |-> "ok", files |-> files, dirs |-> DirsOf(files)]

\* a downloaded archive without .specforge
ArchiveOther ==
    LET files == <<"README.md">> :> File(<<"R">>, 1)
    IN  [status |-> "ok", files |-> files, dirs |-> {}]

\* a download or an extraction that raises
ArchiveError == [status |-> "error", files |-> NoFiles, dirs |-> {}]

\* get_bundled_path() and what a download yields
Sources ==
    {[has_bundled |-> TRUE, bundled |-> b, archive |-> a] :
        b \in {BundledFull, BundledBare}, a \in {ArchiveFull, ArchiveOther, ArchiveError}}
    \cup {[has_bundled |-> FALSE, bundled |-> NoTree, archive |-> a] :
             a \in {ArchiveFull, ArchiveOther, ArchiveError}}

\* options of the command; without bundled resources --force-download changes
\* nothing, and with them and without the option no download happens
Options(source) ==
    {o \in [script_type : {"sh", "ps"}, skip_sync : BOOLEAN, force_download : BOOLEAN] :
        /\ ~source.has_bundled => ~o.force_download
        /\ (source.has_bundled /\ ~o.force_download) => source.archive = ArchiveError}

\* the memory subtree of the project
MemoryRoot == <<".specforge", "memory">>

MemoryShapes ==
    { NoFiles,
      Append(MemoryRoot, "constitution.md") :> File(<<"m">>, 1),
      Append(MemoryRoot, "constitution.md") :> File(<<"m">>, 1)
          @@ (MemoryRoot \o <<"notes", "n.md">>) :> File(<<"n">>, 2) }

\* .specforge/scripts of the project: none, or scripts of an earlier version
ScriptShapes ==
    { NoFiles,
      (ScriptsDest \o <<"bash", "common.sh">>) :> File(<<"#", "!", "o">>, 1)
          @@ (ScriptsDest \o <<"bash", "stale.sh">>) :> File(<<"s">>, 1) }

\* .specforge/templates of the project: none, or an older file, a custom
\* file and a custom file in a folder the source has too
TemplateShapes ==
    { NoFiles,
      Append(TemplatesDest, "spec-template.md") :> File(<<"O">>, 1)
          @@ Append(TemplatesDest, "custom.md") :> File(<<"c">>, 2)
          @@ (TemplatesDest \o <<"sub", "keep.md">>) :> File(<<"k">>, 2) }

\* .vscode/settings.json of the project
SettingsShapes ==
    { NoFiles, <<".vscode", "settings.json">> :> File(<<"{", "b", "2", "}">>, 1) }

\* what an installed agent has: a command file of an earlier version
InstalledFiles(a) == CommandFile(a, "plan") :> File(<<"o", "l", "d">>, 1)

\* the first agent also has a context file and a skill
OwnerFiles(a) ==
    AGENT_CONTEXT_PATHS(a) :> File(<<"c", "t", "x">>, 2)
        @@ <<AgentFolder(a), "skills", "s.md">> :> File(<<"s", "k">>, 2)

\* a manifest of an earlier version in .github/agents
OldManifest ==
    Append(CommandDir("copilot"), "specforge.old.agent.md") :> File(<<"o">>, 1)

RECURSIVE InstalledAll(_)
InstalledAll(l) ==
    IF l = <<>> THEN NoFiles ELSE Overlay(InstalledAll(Tail(l)), InstalledFiles(Head(l)))

UpdateProjects(l) ==
    {Overlay(Overlay(Overlay(Overlay(m, s), t), v),
             Overlay(Overlay(InstalledAll(l), OwnerFiles(Head(l))),
                     IF "copilot" \in Range(l) THEN OldManifest ELSE NoFiles)) :
        m \in MemoryShapes, s \in ScriptShapes, t \in TemplateShapes, v \in SettingsShapes}

Init ==
    /\ pc = "shared"
    /\ agents \in UpdateAgentLists
    /\ src \in Sources
    /\ opts \in Options(src)
    /\ fs \in UpdateProjects(agents)
    /\ dirs = DirsOf(fs) \cup {<<".specforge">>}
    /\ clock = MaxMtime
    /\ last = NoReport
    /\ snap = [fs |-> fs, dirs |-> dirs]

\* one step of the command: the project after it, what it reported (r.ok is
\* the tracker's verdict, oks the verdicts so far, cmd_errors the agents the
\* commands step named), and the step that follows
Step(op, r, next) ==
    /\ fs' = r.fs
    /\ dirs' = r.dirs
    /\ clock' = r.clock
    /\ last' = [Report(op, r @@ NoResult) EXCEPT
                    !.ok = r.ok,
                    !.oks = Append(last.oks, r.ok),
                    !.cmd_errors = IF "cmd_errors" \in DOMAIN r THEN r.cmd_errors
                                   ELSE <<>>]
    /\ snap' = [fs |-> fs, dirs |-> dirs]
    /\ pc' = next
    /\ UNCHANGED <<agents, src, opts>>

\* update: update_shared_resources
UpdateShared ==
    /\ pc = "shared"
    /\ Step("shared",
            update_shared_resources(fs, dirs, opts.script_type, src,
                                    opts.force_download) @@ [clock |-> clock],
            "commands")

\* a loop that remembers only the last agent that failed
CollectLatest(acc, agent_key, g) ==
    [fs |-> g.fs, dirs |-> g.dirs, clock |-> g.clock,
     cmd_errors |-> IF g.ok THEN acc.cmd_errors ELSE <<agent_key>>]

\* cmd_errors.append(agent_key) when generate_agent_commands returned False
Collect(acc, agent_key, g) ==
    [fs |-> g.fs, dirs |-> g.dirs, clock |-> g.clock,
     cmd_errors |-> IF g.ok THEN acc.cmd_errors ELSE Append(acc.cmd_errors, agent_key)]

\* "for agent_key in all_agents": generate_agent_commands, collecting cmd_errors
RECURSIVE RegenerateCommands(_, _, _, _)
RegenerateCommands(acc, all_agents, script_type, source_path) ==
    IF all_agents = <<>> THEN acc
    ELSE RegenerateCommands(
             Collect(acc, Head(all_agents),
                     generate_agent_commands(Head(all_agents), script_type,
                                             acc.fs, acc.dirs, acc.clock, source_path)),
             Tail(all_agents), script_type, source_path)

\* the verdict of the commands step: an error without bundled resources or
\* with any agent in cmd_errors
CommandsVerdict(r, has_bundled) ==
    r @@ [ok |-> has_bundled /\ r.cmd_errors = <<>>]

\* update: regeneration of the commands of every agent; without bundled
\* resources the step only reports an error
UpdateCommands ==
    /\ pc = "commands"
    /\ Step("commands",
            CommandsVerdict(
                IF src.has_bundled
                THEN RegenerateCommands(
                         [fs |-> fs, dirs |-> dirs, clock |-> clock, cmd_errors |-> <<>>],
                         agents, opts.script_type, src.bundled)
                ELSE [fs |-> fs, dirs |-> dirs, clock |-> clock, cmd_errors |-> <<>>],
                src.has_bundled),
            IF opts.skip_sync THEN "chmod" ELSE "context-sync")

\* update: sync_context_files
UpdateContextSync ==
    /\ pc = "context-sync"
    /\ Step("context", sync_context_files(agents, fs, dirs, clock) @@ [ok |-> TRUE],
            "working-sync")

\* update: sync_agent_working_files
UpdateWorkingSync ==
    /\ pc = "working-sync"
    /\ Step("working",
            sync_agent_working_files(agents, fs, dirs, clock) @@ [ok |-> TRUE],
            "chmod")

\* update: ensure_executable_scripts, then the command completes
UpdateChmod ==
    /\ pc = "chmod"
    /\ Step("chmod",
            ensure_executable_scripts(fs, dirs)
                @@ [dirs |-> dirs, clock |-> clock, ok |-> TRUE],
            "done")

Next ==
    \/ UpdateShared
    \/ UpdateCommands
    \/ UpdateContextSync
    \/ UpdateWorkingSync
    \/ UpdateChmod

Spec == Init /\ [][Next]_vars

(***************************************************************************)
(* Rendering of one template whose body is a sequence of pieces: the six   *)
(* agent-scoped placeholders and plain text.                               *)
(***************************************************************************)
\* pieces per template body
MaxPieces == 3

PieceText(i) ==
    CASE i = 1 -> TOK_AGENT
      [] i = 2 -> TOK_AGENT_DIR
      [] i = 3 -> TOK_AGENT_NAME
      [] i = 4 -> TOK_AGENT_CONTEXT_FILE
      [] i = 5 -> TOK_AGENT_CONTEXT_GLOB
      [] i = 6 -> TOK_AGENT_PROJECT_DIR_ENV
      [] i = 7 -> <<"x">>
      [] i = 8 -> <<"_">>
      [] i = 9 -> <<"\n">>

PieceKinds == 1..9

RECURSIVE PieceLists(_)
PieceLists(n) ==
    IF n = 0 THEN {<<>>}
    ELSE LET shorter == PieceLists(n - 1)
         IN  shorter \cup {Append(l, i) : l \in shorter, i \in PieceKinds}

RECURSIVE BodyOf(_)
BodyOf(pieces) ==
    IF pieces = <<>> THEN <<>> ELSE PieceText(Head(pieces)) \o BodyOf(Tail(pieces))

\* bundled resources whose only command template has the given body
BundledWith(body) ==
    LET files == <<"templates", "commands", "plan.md">> :> File(body, 1)
    IN  [files |-> files, dirs |-> DirsOf(files)]

InitRender ==
    /\ pc = "render"
    /\ agents \in {<<a>> : a \in AgentKeys}
    /\ \E pieces \in PieceLists(MaxPieces) \ {<<>>} :
           src = [has_bundled |-> TRUE, bundled |-> BundledWith(BodyOf(pieces)),
                  archive |-> ArchiveError, pieces |-> pieces]
    /\ opts = NoOpts
    /\ fs = NoFiles
    /\ dirs = {}
    /\ clock = MaxMtime
    /\ last = NoReport
    /\ snap = [fs |-> fs, dirs |-> dirs]

\* generate_agent_commands for the one agent, on an empty project
RenderCommands ==
    /\ pc = "render"
    /\ Step("commands",
            generate_agent_commands(agents[1], opts.script_type, fs, dirs, clock,
                                    src.bundled),
            "rendered")

NextRender == RenderCommands

SpecRender == InitRender /\ [][NextRender]_vars

(***************************************************************************)
(* generate_agent_commands called on its own: any agent key, registered or *)
(* not, any of a few source trees, a project with or without earlier       *)
(* files.                                                                  *)
(***************************************************************************)
\* a key that is in no registry
UnknownAgent == "nobody"

\* bundled resources with two command templates and nothing else
BundledTwo ==
    LET files ==
            <<"templates", "commands", "plan.md">> :> File(PlanTemplate, 1)
         @@ <<"templates", "commands", "tasks.md">> :> File(<<"t", "\n">>, 1)
    IN  [files |-> files, dirs |-> DirsOf(files)]

GenerateSources == {BundledFull, BundledBare, BundledTwo, NoTree}

\* projects: an earlier settings file or none, an earlier manifest or none,
\* the agent's earlier command file or none
GenerateProjects(a) ==
    {Overlay(Overlay(v, o), i) :
        v \in SettingsShapes, o \in {NoFiles, OldManifest},
        i \in {NoFiles} \cup (IF a \in AgentKeys THEN {InstalledFiles(a)} ELSE {})}

InitGenerate ==
    /\ pc = "generate"
    /\ agents \in {<<a>> : a \in AgentKeys \cup {UnknownAgent}}
    /\ src \in {[has_bundled |-> TRUE, bundled |-> b, archive |-> ArchiveError] :
                   b \in GenerateSources}
    /\ opts \in {[NoOpts EXCEPT !.script_type = t] : t \in {"sh", "ps"}}
    /\ fs \in GenerateProjects(agents[1])
    /\ dirs = DirsOf(fs)
    /\ clock = MaxMtime
    /\ last = NoReport
    /\ snap = [fs |-> fs, dirs |-> dirs]

\* one call of generate_agent_commands
GenerateCommands ==
    /\ pc = "generate"
    /\ Step("commands",
            generate_agent_commands(agents[1], opts.script_type, fs, dirs, clock,
                                    src.bundled),
            "generated")

NextGenerate == GenerateCommands

SpecGenerate == InitGenerate /\ [][NextGenerate]_vars

(***************************************************************************)
(* handle_vscode_settings called on its own, once or twice with the same   *)
(* source: the destination is absent or holds any of the texts below, the  *)
(* source holds any of them.                                               *)
(***************************************************************************)
\* nesting of the objects drawn
MaxDepth == 2

\* calls of handle_vscode_settings in a row
MaxMerges == 2

\* the objects of nesting up to depth over the keys a and b, whose other
\* values are a number or an array; <<>> stands for a key left out
RECURSIVE JsonObjects(_)
JsonObjects(depth) ==
    IF depth = 0 THEN {}
    ELSE {<<"{">> \o (IF va = <<>> THEN <<>> ELSE <<"a">> \o va)
                 \o (IF vb = <<>> THEN <<>> ELSE <<"b">> \o vb) \o <<"}">> :
             va \in {<<>>, <<"1">>, <<"[1]">>} \cup JsonObjects(depth - 1),
             vb \in {<<>>, <<"1">>, <<"[1]">>} \cup JsonObjects(depth - 1)}

\* texts that are no JSON, JSON that is no object, an object with a key
\* written twice, with a closing newline, with its keys in another order
OtherTexts ==
    { <<"o">>, <<"{", "a", "}">>, <<"{", "a", "1">>, <<"[1]">>, <<"1">>,
      <<"{", "a", "1", "a", "[1]", "}">>, <<"{", "a", "1", "}", "\n">>,
      <<"{", "b", "1", "a", "{", "}", "}">> }

SettingsTexts == JsonObjects(MaxDepth) \cup OtherTexts

SettingsDest == <<".vscode", "settings.json">>

\* a source tree that holds the settings file only
SettingsSource(text) ==
    LET files == VscodeSettings :> File(text, 1)
    IN  [files |-> files, dirs |-> DirsOf(files)]

InitMerge ==
    /\ pc = "merge"
    /\ agents = <<"copilot">>
    /\ src \in {[has_bundled |-> TRUE, bundled |-> SettingsSource(n),
                  archive |-> ArchiveError] : n \in SettingsTexts}
    /\ opts = NoOpts
    /\ fs \in {NoFiles} \cup {SettingsDest :> File(e, 2) : e \in SettingsTexts}
    /\ dirs = {<<".vscode">>}
    /\ clock = MaxMtime
    /\ last = NoReport
    /\ snap = [fs |-> fs, dirs |-> dirs]

\* what handle_vscode_settings logs: "Merged:" after json.dump, else a copy
SettingsOp(r) == IF r.clock > clock THEN "merged" ELSE "copied"

\* the step of one call, r its result
SettingsStep(r) ==
    Step(SettingsOp(r), r @@ [dirs |-> dirs, ok |-> TRUE], "merge")

\* one call of handle_vscode_settings
MergeSettings ==
    /\ pc = "merge"
    /\ last.n < MaxMerges
    /\ SettingsStep(handle_vscode_settings(fs, dirs, clock,
                                           src.bundled.files[VscodeSettings],
                                           SettingsDest))

NextMerge == MergeSettings

SpecMerge == InitMerge /\ [][NextMerge]_vars

(***************************************************************************)
(* One command template rendered for a TOML agent and for a markdown       *)
(* agent, as the regeneration loop of `update` does for two installed      *)
(* agents.  The template has a frontmatter with a description, and a body. *)
(***************************************************************************)
\* pieces of the description
MaxDescPieces == 2

\* pieces of the body
MaxBodyPieces == 3

\* the sequences of up to n elements of S
RECURSIVE SeqsUpTo(_, _)
SeqsUpTo(S, n) ==
    IF n = 0 THEN {<<>>}
    ELSE {<<>>} \cup {<<x>> \o l : x \in S, l \in SeqsUpTo(S, n - 1)}

\* a piece of a description or of a body
TomlPiece(kind) ==
    CASE kind = "x"     -> <<"x">>
      [] kind = "quote" -> <<"\"">>
      [] kind = "slash" -> <<"\\">>
      [] kind = "args"  -> <<"{", "A", "R", "G", "S", "}">>
      [] kind = "line"  -> <<"\n">>

RECURSIVE TomlText(_)
TomlText(kinds) ==
    IF kinds = <<>> THEN <<>> ELSE TomlPiece(Head(kinds)) \o TomlText(Tail(kinds))

\* the template file: frontmatter with the description, then the body
TomlTemplate(desc, body) ==
    <<"-", "-", "-", "\n",
      "d", "e", "s", "c", "r", "i", "p", "t", "i", "o", "n", ":", " ">>
        \o desc \o <<"\n", "-", "-", "-", "\n">> \o body

InitToml ==
    /\ pc = "toml"
    /\ agents = <<"gemini", "claude">>
    /\ \E dk \in SeqsUpTo({"x", "quote", "slash"}, MaxDescPieces) \ {<<>>},
          bk \in SeqsUpTo({"x", "quote", "slash", "args", "line"}, MaxBodyPieces) :
           src = [has_bundled |-> TRUE,
                  bundled |-> BundledWith(TomlTemplate(TomlText(dk), TomlText(bk))),
                  archive |-> ArchiveError,
                  desc |-> TomlText(dk), body |-> TomlText(bk)]
    /\ opts = NoOpts
    /\ fs = NoFiles
    /\ dirs = {}
    /\ clock = MaxMtime
    /\ last = NoReport
    /\ snap = [fs |-> fs, dirs |-> dirs]

\* the regeneration loop of `update` over the two agents
RegenerateBoth ==
    /\ pc = "toml"
    /\ Step("commands",
            CommandsVerdict(
                RegenerateCommands(
                    [fs |-> fs, dirs |-> dirs, clock |-> clock, cmd_errors |-> <<>>],
                    agents, opts.script_type, src.bundled),
                TRUE),
            "rendered")

NextToml == RegenerateBoth

SpecToml == InitToml /\ [][NextToml]_vars

(***************************************************************************)
(* One command template given as a sequence of lines, rendered for one     *)
(* agent: frontmatter marks, section headers, indented and empty lines,    *)
(* plain lines and the {SCRIPT} placeholder.                               *)
(***************************************************************************)
\* lines of the template
MaxLines == 4

LineKinds ==
    {"mark", "scripts", "agent_scripts", "sh", "ps", "one", "empty", "body", "script"}

\* the text of a line
LineText(kind) ==
    CASE kind = "mark"          -> <<"-", "-", "-">>
      [] kind = "scripts"       -> <<"s","c","r","i","p","t","s",":">>
      [] kind = "agent_scripts" -> <<"a","g","e","n","t","_","s","c","r","i","p","t","s",":">>
      [] kind = "sh"            -> <<" ", " ", "s", "h", ":", " ", "a">>
      [] kind = "ps"            -> <<" ", " ", "p", "s", ":", " ", "b">>
      [] kind = "one"           -> <<" ", "x">>
      [] kind = "empty"         -> <<>>
      [] kind = "body"          -> <<"b", "o", "d", "y">>
      [] kind = "script"        -> <<"{","S","C","R","I","P","T","}">>

\* the template file of the lines of the given kinds
LinesTemplate(kinds) == JoinLines([i \in 1..Len(kinds) |-> LineText(kinds[i])])

InitSections ==
    /\ pc = "sections"
    /\ agents \in {<<"claude">>, <<"gemini">>}
    /\ \E kinds \in SeqsUpTo(LineKinds, MaxLines) \ {<<>>} :
           src = [has_bundled |-> TRUE, bundled |-> BundledWith(LinesTemplate(kinds)),
                  archive |-> ArchiveError, kinds |-> kinds]
    /\ opts \in {[NoOpts EXCEPT !.script_type = t] : t \in {"sh", "ps"}}
    /\ fs = NoFiles
    /\ dirs = {}
    /\ clock = MaxMtime
    /\ last = NoReport
    /\ snap = [fs |-> fs, dirs |-> dirs]

\* generate_agent_commands for the one agent
RenderLines ==
    /\ pc = "sections"
    /\ Step("commands",
            generate_agent_commands(agents[1], opts.script_type, fs, dirs, clock,
                                    src.bundled),
            "rendered")

NextSections == RenderLines

SpecSections == InitSections /\ [][NextSections]_vars

(***************************************************************************)
(* The path rewrite of one template whose text is a sequence of pieces:    *)
(* the three folder names, the characters the rewrite looks for before     *)
(* them, and text it must leave alone.                                     *)
(***************************************************************************)
\* pieces per template text
MaxPathPieces == 4

PathPieceKinds ==
    {"memory", "scripts", "templates", "slash", "space", "tick", "dquote",
     "squote", "prefix", "x", "line"}

PathPiece(kind) ==
    CASE kind = "memory"    -> <<"m","e","m","o","r","y","/">>
      [] kind = "scripts"   -> <<"s","c","r","i","p","t","s","/">>
      [] kind = "templates" -> <<"t","e","m","p","l","a","t","e","s","/">>
      [] kind = "slash"     -> <<"/">>
      [] kind = "space"     -> <<" ">>
      [] kind = "tick"      -> <<Backquote>>
      [] kind = "dquote"    -> <<"\"">>
      [] kind = "squote"    -> <<"'">>
      [] kind = "prefix"    -> <<".","s","p","e","c","f","o","r","g","e","/">>
      [] kind = "x"         -> <<"x">>
      [] kind = "line"      -> <<"\n">>

RECURSIVE PathText(_)
PathText(kinds) ==
    IF kinds = <<>> THEN <<>> ELSE PathPiece(Head(kinds)) \o PathText(Tail(kinds))

InitPaths ==
    /\ pc = "paths"
    /\ agents = <<"claude">>
    /\ \E kinds \in SeqsUpTo(PathPieceKinds, MaxPathPieces) \ {<<>>} :
           src = [has_bundled |-> TRUE, bundled |-> BundledWith(PathText(kinds)),
                  archive |-> ArchiveError, kinds |-> kinds]
    /\ opts = NoOpts
    /\ fs = NoFiles
    /\ dirs = {}
    /\ clock = MaxMtime
    /\ last = NoReport
    /\ snap = [fs |-> fs, dirs |-> dirs]

\* generate_agent_commands for the one agent
RewritePaths ==
    /\ pc = "paths"
    /\ Step("commands",
            generate_agent_commands(agents[1], opts.script_type, fs, dirs, clock,
                                    src.bundled),
            "rendered")

NextPaths == RewritePaths

SpecPaths == InitPaths /\ [][NextPaths]_vars

(***************************************************************************)
(* The `init` command.  Paths are relative to the current directory, which *)
(* is the directory <<>>; the project is a new directory of it, or, with   *)
(* --here, the current directory itself.  A failure of the environment     *)
(* (disk, network, archive) is an input of the command: the point where    *)
(* the first exception is raised.                                          *)
(***************************************************************************)
\* project_path
ProjectPath(here) == IF here THEN <<>> ELSE <<"proj">>

\* zip_path = current_dir / filename
ZipPath == <<"template.zip">>

\* project_path.parent / f"{project_path.name}_temp"
TempMovePath == <<"proj_temp">>

\* the files and the directories below directory P, relative to P
Within(f, P) == [q \in {From(p, Len(P)) : p \in Under(f, P)} |-> f[P \o q]]
WithinDirs(d, P) == {From(x, Len(P)) : x \in {y \in d : IsPrefix(P, y) /\ y # P}}

\* the files g and the directories e, relative to P, as the content of P
Placed(f, P, g) ==
    Overlay(RmTreeFiles(f, P), [q \in {P \o p : p \in DOMAIN g} |-> g[From(q, Len(P))]])
PlacedDirs(d, P, e) == {x \in d : ~IsPrefix(P, x) \/ x = P} \cup {P \o x : x \in e}

\* the points where the environment can raise
InitFailures == {"none", "build", "fetch", "open", "extractall", "flatten", "later"}

\* build_template_from_bundled, paths relative to target_dir; raises: an
\* exception in the try block, here after the copy of memory, which the
\* function turns into False
build_template_from_bundled(ai_assistant, script_type, f, d, now, bundled, raises) ==
    LET specify_dir == <<".specforge">>
        variant == <<"scripts", VariantDir(script_type)>>
        hasMemory == PathExists(bundled.files, bundled.dirs, <<"memory">>)
        hasScripts == PathExists(bundled.files, bundled.dirs, <<"scripts">>)
        hasVariant == hasScripts /\ PathExists(bundled.files, bundled.dirs, variant)
        f1 == IF hasMemory THEN CopyTreeFiles(f, bundled, <<"memory">>, MemoryRoot)
              ELSE f
        d1 == IF hasMemory
              THEN CopyTreeDirs(Mkdirs(d, specify_dir), bundled, <<"memory">>, MemoryRoot)
              ELSE Mkdirs(d, specify_dir)
        f2 == IF hasVariant
              THEN CopyTreeFiles(f1, bundled, variant,
                                 Append(ScriptsDest, VariantDir(script_type)))
              ELSE f1
        d2 == IF hasVariant
              THEN CopyTreeDirs(d1, bundled, variant,
                                Append(ScriptsDest, VariantDir(script_type)))
              ELSE IF hasScripts THEN Mkdirs(d1, ScriptsDest) ELSE d1
        loose == {p \in Items(bundled, <<"scripts">>) : p \in DOMAIN bundled.files}
        f3 == IF hasScripts THEN CopyFiles(f2, d2, bundled, loose, ScriptsDest) ELSE f2
        t == CopyItems(f3, d2, bundled, <<"templates">>, TemplatesDest, SkippedItems)
        g == generate_agent_commands(ai_assistant, script_type, t.fs, t.dirs, now, bundled)
    IN  IF ~PathExists(bundled.files, bundled.dirs, <<"templates">>)
        THEN [ok |-> FALSE, fs |-> f, dirs |-> d, clock |-> now]
        ELSE IF raises THEN [ok |-> FALSE, fs |-> f1, dirs |-> d1, clock |-> now]
        ELSE g

\* download_template_from_github: the archive written to zip_path; a failed
\* download unlinks what it wrote and raises
download_template_from_github(f, now, archive, fail) ==
    IF archive.status = "error" \/ fail = "fetch"
    THEN [raised |-> TRUE, fs |-> [q \in (DOMAIN f) \ {ZipPath} |-> f[q]]]
    ELSE [raised |-> FALSE, fs |-> Overlay(f, [q \in {ZipPath} |-> File(<<"z">>, now)])]

\* the finally clause that keeps the archive
UnlinkZipSkipped(f) == f

\* the finally clause: zip_path.unlink() if it exists
UnlinkZip(f) == [q \in (DOMAIN f) \ {ZipPath} |-> f[q]]

\* the except clause of the extraction: rmtree of a project directory that is
\* not the current directory
ExtractFailed(f, d, P, is_current_dir, now) ==
    [raised |-> TRUE, clock |-> now,
     fs |-> IF ~is_current_dir /\ P \in d THEN RmTreeFiles(f, P) ELSE f,
     dirs |-> IF ~is_current_dir /\ P \in d THEN RmTreeDirs(d, P) ELSE d]

\* the try block of the extraction into a new directory: mkdir, extractall,
\* and the move of a single top-level folder through TempMovePath
ExtractNew(f, d, P, now, archive, fail) ==
    LET d1 == d \cup Ancestors(P)
        f2 == Overlay(f, [q \in {P \o p : p \in DOMAIN archive.files} |->
                             archive.files[From(q, Len(P))]])
        d2 == d1 \cup {P \o x : x \in archive.dirs}
        nested == SourceDir(archive)
        inner == [files |-> Within(archive.files, nested),
                  dirs |-> WithinDirs(archive.dirs, nested)]
        \* after shutil.move(nested_dir, temp_move_dir)
        f3 == Placed(RmTreeFiles(f2, P), TempMovePath, inner.files)
        d3 == PlacedDirs(RmTreeDirs(d2, P) \cup {P, TempMovePath}, TempMovePath,
                         inner.dirs)
        \* after project_path.rmdir() and shutil.move(temp_move_dir, project_path)
        f4 == Placed(RmTreeFiles(f3, TempMovePath), P, inner.files)
        d4 == PlacedDirs(RmTreeDirs(d3, TempMovePath), P, inner.dirs)
    IN  IF P \in d \/ P \in DOMAIN f THEN ExtractFailed(f, d, P, FALSE, now)
        ELSE IF fail = "open" THEN ExtractFailed(f, d1, P, FALSE, now)
        ELSE IF fail = "extractall" THEN ExtractFailed(f, d2, P, FALSE, now)
        ELSE IF nested = <<>>
        THEN [raised |-> FALSE, fs |-> f2, dirs |-> d2, clock |-> now]
        ELSE IF fail = "flatten" THEN ExtractFailed(f3, d3, P, FALSE, now)
        ELSE [raised |-> FALSE, fs |-> f4, dirs |-> d4, clock |-> now]

\* the try block of the extraction into the current directory: the archive
\* is extracted to a temporary directory elsewhere and its items are copied
\* over the project, .vscode/settings.json by handle_vscode_settings when
\* its directory exists
ExtractHere(f, d, now, archive, fail) ==
    LET source_dir == SourceDir(archive)
        inner == [files |-> Within(archive.files, source_dir),
                  dirs |-> WithinDirs(archive.dirs, source_dir)]
        settings == <<".vscode", "settings.json">>
        merges == settings \in DOMAIN inner.files /\ <<".vscode">> \in d
        plain == [q \in (DOMAIN inner.files) \ (IF merges THEN {settings} ELSE {}) |->
                     inner.files[q]]
        f1 == Overlay(f, plain)
        d1 == d \cup inner.dirs
        h == IF merges THEN handle_vscode_settings(f1, d1, now, inner.files[settings],
                                                    settings)
             ELSE [fs |-> f1, clock |-> now]
    IN  IF fail \in {"open", "extractall"} THEN ExtractFailed(f, d, <<>>, TRUE, now)
        ELSE IF fail = "flatten" THEN ExtractFailed(f, d1, <<>>, TRUE, now)
        ELSE [raised |-> FALSE, fs |-> h.fs, dirs |-> d1, clock |-> h.clock]

\* the branch of the bundled build once build_template_from_bundled returned
\* b for the content of P: return, or remove a project directory that is not
\* the current directory and fall back to the download
AfterBuild(P, is_current_dir, f, d0, now, b) ==
    LET fb == Placed(f, P, b.fs)
        db == PlacedDirs(d0, P, b.dirs)
        removes == ~is_current_dir /\ P \in db
    IN  IF b.ok THEN [done |-> TRUE, fs |-> fb, dirs |-> db, clock |-> b.clock]
        ELSE [done |-> FALSE, clock |-> now,
              fs |-> IF removes THEN RmTreeFiles(fb, P) ELSE fb,
              dirs |-> IF removes THEN RmTreeDirs(db, P) ELSE db]

\* the branch "bundled_path and not force_download"
BundledBranch(P, ai_assistant, script_type, is_current_dir, f, d, now, source, force_download, fail) ==
    IF source.has_bundled /\ ~force_download
    THEN AfterBuild(P, is_current_dir, f,
                    IF is_current_dir THEN d ELSE Mkdirs(d, P), now,
                    build_template_from_bundled(
                        ai_assistant, script_type, Within(f, P),
                        WithinDirs(IF is_current_dir THEN d ELSE Mkdirs(d, P), P),
                        now, source.bundled, fail = "build"))
    ELSE [done |-> FALSE, fs |-> f, dirs |-> d, clock |-> now]

\* the extraction once it ended as e: the finally clause removes the archive
AfterExtract(e) ==
    [raised |-> e.raised, at |-> "extract", fs |-> UnlinkZip(e.fs), dirs |-> e.dirs,
     clock |-> e.clock]

\* the extraction once download_template_from_github ended as z
AfterFetch(P, is_current_dir, d, now, archive, fail, z) ==
    IF z.raised
    THEN [raised |-> TRUE, at |-> "fetch", fs |-> z.fs, dirs |-> d, clock |-> now]
    ELSE AfterExtract(IF is_current_dir THEN ExtractHere(z.fs, d, now, archive, fail)
                      ELSE ExtractNew(z.fs, d, P, now, archive, fail))

\* the download and the extraction once the bundled branch ended as a
AfterBundled(P, is_current_dir, now, archive, fail, a) ==
    IF a.done
    THEN [raised |-> FALSE, at |-> "bundled", fs |-> a.fs, dirs |-> a.dirs,
          clock |-> a.clock]
    ELSE AfterFetch(P, is_current_dir, a.dirs, now, archive, fail,
                    download_template_from_github(a.fs, now, archive, fail))

\* download_and_extract_template: the bundled build, then, if there is none,
\* it failed or --force-download was given, the download and the extraction
download_and_extract_template(P, ai_assistant, script_type, is_current_dir, f, d, now, source, force_download, fail) ==
    AfterBundled(P, is_current_dir, now, source.archive, fail,
                 BundledBranch(P, ai_assistant, script_type, is_current_dir, f, d, now,
                               source, force_download, fail))

\* the rest of init once download_and_extract_template ended as t:
\* ensure_executable_scripts and the git step, and the except clause that
\* removes a project directory that is not the current directory
AfterTemplate(here, P, fail, t) ==
    LET removes == ~here /\ P \in t.dirs
    IN  IF t.raised
        THEN [ok |-> FALSE, at |-> t.at, clock |-> t.clock,
              fs |-> IF removes THEN RmTreeFiles(t.fs, P) ELSE t.fs,
              dirs |-> IF removes THEN RmTreeDirs(t.dirs, P) ELSE t.dirs]
        ELSE IF fail = "later"
        THEN [ok |-> FALSE, at |-> "final", clock |-> t.clock,
              fs |-> IF removes THEN RmTreeFiles(t.fs, P)
                     ELSE Placed(t.fs, P,
                                 ensure_executable_scripts(Within(t.fs, P),
                                                           WithinDirs(t.dirs, P)).fs),
              dirs |-> IF removes THEN RmTreeDirs(t.dirs, P) ELSE t.dirs]
        ELSE [ok |-> TRUE, at |-> "ready", clock |-> t.clock, dirs |-> t.dirs,
              fs |-> Placed(t.fs, P,
                            ensure_executable_scripts(Within(t.fs, P),
                                                      WithinDirs(t.dirs, P)).fs)]

\* init, from the Live block on
init(here, ai_assistant, script_type, f, d, now, source, force_download, fail) ==
    AfterTemplate(here, ProjectPath(here), fail,
                  download_and_extract_template(ProjectPath(here), ai_assistant,
                                                script_type, here, f, d, now, source,
                                                force_download, fail))

\* what the current directory holds before init: nothing, or files of the
\* user; with --here also a project of an earlier version
CwdShapes(here) ==
    {NoFiles, <<"notes.txt">> :> File(<<"u">>, 1)}
    \cup (IF here
          THEN {Append(MemoryRoot, "constitution.md") :> File(<<"m">>, 1)
                    @@ <<".vscode", "settings.json">> :> File(<<"{", "b", "2", "}">>, 1)}
          ELSE {<<"other", "a.txt">> :> File(<<"o">>, 1)})

\* a downloaded archive with .vscode/settings.json at its top
ArchiveFlat ==
    LET files ==
            <<".specforge", "templates", "spec-template.md">> :> File(<<"T">>, 1)
         @@ <<".vscode", "settings.json">> :> File(<<"{", "a", "1", "}">>, 1)
    IN  [status |-> "ok", files |-> files, dirs |-> DirsOf(files)]

InitSources ==
    Sources \cup {[has_bundled |-> FALSE, bundled |-> NoTree, archive |-> ArchiveFlat]}

InitInit ==
    /\ pc = "init"
    /\ agents \in {<<"claude">>, <<"gemini">>}
    /\ src \in InitSources
    /\ opts \in {o \in [script_type : {"sh", "ps"}, skip_sync : {FALSE},
                        force_download : BOOLEAN, here : BOOLEAN] :
                    ~src.has_bundled => ~o.force_download}
    /\ fs \in CwdShapes(opts.here)
    /\ dirs = DirsOf(fs) \cup {<<>>}
    /\ clock = MaxMtime
    /\ last = NoReport
    /\ snap = [fs |-> fs, dirs |-> dirs]

\* the command ends at the step named by r.at
InitStep(r) == Step("init", r, r.at)

\* init <name> or init --here
InitProject ==
    /\ pc = "init"
    /\ \E fail \in InitFailures :
           InitStep(init(opts.here, agents[1], opts.script_type, fs, dirs, clock, src,
                         opts.force_download, fail))

NextInit == InitProject

SpecInit == InitInit /\ [][NextInit]_vars

(***************************************************************************)
(* The `migrate` command, on a project of the earlier naming: .specify/,   *)
(* speckit.* command files, agents/speckit/ folders.                       *)
(***************************************************************************)
\* old_specify_dir and new_specforge_dir
OldSpecifyDir == <<".specify">>
NewSpecforgeDir == <<".specforge">>

\* the first components str(rel).startswith("memory") accepts
MemoryLikeNames == {"memory", "memory.md"}

\* a merge that never skips a file
KeepsMemoryNever(f, d, rel, dest) == FALSE

\* "str(rel).startswith('memory') and dest.exists()"
KeepsMemory(f, d, rel, dest) == rel[1] \in MemoryLikeNames /\ PathExists(f, d, dest)

\* the loop over old_specify_dir.rglob("*"): every file that is not a kept
\* memory file is copied by copy2 to the same relative path of the new
\* directory
MergeOldIntoNew(f, d) ==
    LET rels == {From(p, 1) : p \in Under(f, OldSpecifyDir)}
        copied == {rel \in rels : ~KeepsMemory(f, d, rel, NewSpecforgeDir \o rel)}
        target(rel) == Copy2Target(d, NewSpecforgeDir \o rel, Name(rel))
    IN  [fs |-> Overlay(f, [q \in {target(rel) : rel \in copied} |->
                               f[OldSpecifyDir \o (CHOOSE rel \in copied :
                                                      target(rel) = q)]]),
         dirs |-> d \cup UNION {Ancestors(Parent(NewSpecforgeDir \o rel)) :
                                   rel \in copied}]

\* Path.rename(old, new) of a directory, or of a file
RenamePath(f, old, new) ==
    [q \in {IF IsPrefix(old, p) THEN new \o From(p, Len(old)) ELSE p : p \in DOMAIN f} |->
        IF IsPrefix(new, q) THEN f[old \o From(q, Len(new))] ELSE f[q]]
RenameDirs(d, old, new) ==
    {IF IsPrefix(old, x) THEN new \o From(x, Len(old)) ELSE x : x \in d}

\* step 1: .specify/ merged into .specforge/ and removed, or renamed
MigrateDir(f, d) ==
    LET merged == MergeOldIntoNew(f, d)
    IN  IF OldSpecifyDir \notin d THEN [fs |-> f, dirs |-> d]
        ELSE IF NewSpecforgeDir \in d
        THEN [fs |-> RmTreeFiles(merged.fs, OldSpecifyDir),
              dirs |-> RmTreeDirs(merged.dirs, OldSpecifyDir)]
        ELSE [fs |-> RenamePath(f, OldSpecifyDir, NewSpecforgeDir),
              dirs |-> RenameDirs(d, OldSpecifyDir, NewSpecforgeDir)]

\* the extension of the command files of an agent
CommandSuffix(a) ==
    CASE FileExt(a) = "toml"     -> ".toml"
      [] FileExt(a) = "agent.md" -> ".agent.md"
      [] OTHER                   -> ".md"

\* cmd_path / "speckit.<name><ext>"
OldCommandFile(a, name) == CommandDir(a) \o <<"speckit." \o name \o CommandSuffix(a)>>

\* old_command_files: the speckit.* files found by the scan
old_command_files(f) ==
    {[agent |-> a, name |-> n] : a \in AgentKeys, n \in TemplateNames} \cap
    {c \in [agent : AgentKeys, name : TemplateNames] :
        OldCommandFile(c.agent, c.name) \in DOMAIN f}

\* step 2: a speckit.* file is renamed, or removed when the new name exists
RECURSIVE MigrateCommands(_, _)
MigrateCommands(f, todo) ==
    IF todo = {} THEN f
    ELSE LET c == CHOOSE x \in todo : TRUE
             old_f == OldCommandFile(c.agent, c.name)
             new_f == CommandFile(c.agent, c.name)
         IN  MigrateCommands(
                 IF new_f \in DOMAIN f THEN [q \in (DOMAIN f) \ {old_f} |-> f[q]]
                 ELSE RenamePath(f, old_f, new_f),
                 todo \ {c})

SPECKIT_SLASH == <<"/", "s", "p", "e", "c", "k", "i", "t", ".">>
SPECFORGE_SLASH == <<"/", "s", "p", "e", "c", "f", "o", "r", "g", "e", ".">>
SPECIFY_DIR == <<".", "s", "p", "e", "c", "i", "f", "y", "/">>
SPECFORGE_DIR == <<".", "s", "p", "e", "c", "f", "o", "r", "g", "e", "/">>

\* the replacements of step 3 (SPECIFY_FEATURE is in no modelled file)
NewNaming(content) ==
    Replace(Replace(Replace(content, SPECKIT_SLASH, SPECFORGE_SLASH),
                    From(SPECKIT_SLASH, 1), From(SPECFORGE_SLASH, 1)),
            SPECIFY_DIR, SPECFORGE_DIR)

\* the replacements of step 5
NewNamingSettings(content) ==
    Replace(Replace(content, From(SPECKIT_SLASH, 1), From(SPECFORGE_SLASH, 1)),
            SPECIFY_DIR, SPECFORGE_DIR)

\* "sub in content"
Contains(content, sub) == Find(content, sub, 0) # -1

\* write_text of the new content where it differs, at the instant now
Rewritten(f, paths, now, naming(_)) ==
    [q \in DOMAIN f |->
        IF q \in paths /\ naming(f[q].content) # f[q].content
        THEN [f[q] EXCEPT !.content = naming(f[q].content), !.mtime = now]
        ELSE f[q]]

\* the specforge.* files of the command directories
NewCommandFiles(f) ==
    {CommandFile(a, n) : a \in AgentKeys, n \in TemplateNames} \cap DOMAIN f

\* old_agents_subdir and new_agents_subdir
OldAgentsSubdir(a) == <<AgentFolder(a), "agents", "speckit">>
NewAgentsSubdir(a) == <<AgentFolder(a), "agents", "specforge">>

\* step 4: agents/speckit/ copied over agents/specforge/ and removed, or
\* renamed
RECURSIVE MigrateAgentDirs(_, _)
MigrateAgentDirs(st, todo) ==
    IF todo = {} THEN st
    ELSE LET a == CHOOSE x \in todo : TRUE
             old_d == OldAgentsSubdir(a)
             new_d == NewAgentsSubdir(a)
             tree == [files |-> st.fs, dirs |-> st.dirs]
         IN  MigrateAgentDirs(
                 IF new_d \in st.dirs
                 THEN [fs |-> RmTreeFiles(CopyTreeFiles(st.fs, tree, old_d, new_d), old_d),
                       dirs |-> RmTreeDirs(CopyTreeDirs(st.dirs, tree, old_d, new_d),
                                           old_d)]
                 ELSE [fs |-> RenamePath(st.fs, old_d, new_d),
                       dirs |-> RenameDirs(st.dirs, old_d, new_d)],
                 todo \ {a})

\* steps 2 to 5 on the project after step 1; cmds, content_files, agent_dirs
\* and has_old_vscode are the findings of the scan
MigrateRest(st, now, cmds, content_files, agent_dirs, has_old_vscode) ==
    LET f2 == MigrateCommands(st.fs, cmds)
        f3 == IF cmds # {} \/ content_files # {}
              THEN Rewritten(f2, NewCommandFiles(f2), now + 1, NewNaming)
              ELSE f2
        s4 == MigrateAgentDirs([fs |-> f3, dirs |-> st.dirs], agent_dirs)
        settings == <<".vscode", "settings.json">>
    IN  [ok |-> TRUE, clock |-> now + 1, dirs |-> s4.dirs,
         fs |-> IF has_old_vscode
                THEN Rewritten(s4.fs, {settings}, now + 1, NewNamingSettings)
                ELSE s4.fs]

\* migrate: the scan, the exit when nothing is of the old naming, the five
\* steps
migrate(f, d, now) ==
    LET has_old_dir == OldSpecifyDir \in d
        cmds == old_command_files(f)
        content_files == {p \in NewCommandFiles(f) :
                             Contains(f[p].content, From(SPECKIT_SLASH, 1))}
        agent_dirs == {a \in AgentKeys : OldAgentsSubdir(a) \in d}
        settings == <<".vscode", "settings.json">>
        has_old_vscode ==
            /\ settings \in DOMAIN f
            /\ \/ Contains(f[settings].content, From(SPECKIT_SLASH, 1))
               \/ Contains(f[settings].content, SPECIFY_DIR)
    IN  IF ~has_old_dir /\ cmds = {} /\ content_files = {} /\ agent_dirs = {}
           /\ ~has_old_vscode
        THEN [ok |-> TRUE, fs |-> f, dirs |-> d, clock |-> now]
        ELSE MigrateRest(MigrateDir(f, d), now, cmds, content_files, agent_dirs,
                         has_old_vscode)

\* .specify/ of the project: none, or memory, a file whose name begins with
\* memory, and a template
OldDirShapes ==
    { NoFiles,
      <<".specify", "memory", "constitution.md">> :> File(<<"o", "m">>, 1)
          @@ <<".specify", "memory", "only.md">> :> File(<<"o", "o">>, 1)
          @@ <<".specify", "templates", "t.md">> :> File(<<"o", "t">>, 1),
      <<".specify", "memory", "constitution.md">> :> File(<<"o", "m">>, 2)
          @@ <<".specify", "memory", "deep", "d.md">> :> File(<<"o", "d">>, 2)
          @@ <<".specify", "memory.md">> :> File(<<"o", "x">>, 2) }

\* .specforge/ of the project: none, or memory and a template
NewDirShapes ==
    { NoFiles,
      <<".specforge", "memory", "constitution.md">> :> File(<<"n", "m">>, 1)
          @@ <<".specforge", "memory", "new.md">> :> File(<<"n", "n">>, 1),
      <<".specforge", "memory", "constitution.md">> :> File(<<"n", "m">>, 1)
          @@ <<".specforge", "memory", "deep", "d.md">> :> File(<<"n", "d">>, 1)
          @@ <<".specforge", "memory.md">> :> File(<<"n", "x">>, 1)
          @@ <<".specforge", "templates", "t.md">> :> File(<<"n", "t">>, 1) }

\* a command file that names an old command and the old directory
OldCommandText == SPECKIT_SLASH \o <<"p", " ">> \o SPECIFY_DIR \o <<"m">>

\* the command files of claude and gemini
MigrateCommandShapes ==
    { NoFiles,
      OldCommandFile("claude", "plan") :> File(OldCommandText, 1),
      OldCommandFile("claude", "plan") :> File(OldCommandText, 1)
          @@ CommandFile("claude", "plan") :> File(<<"n">>, 2)
          @@ OldCommandFile("gemini", "tasks") :> File(<<"g">>, 1),
      CommandFile("gemini", "plan") :> File(OldCommandText, 1) }

\* the agents/ folders of claude
MigrateAgentShapes ==
    { NoFiles,
      <<".claude", "agents", "speckit", "a.md">> :> File(<<"a">>, 1),
      <<".claude", "agents", "speckit", "a.md">> :> File(<<"a">>, 1)
          @@ <<".claude", "agents", "specforge", "a.md">> :> File(<<"b">>, 2) }

MigrateSettingsShapes ==
    { NoFiles,
      <<".vscode", "settings.json">> :> File(<<"{">> \o SPECIFY_DIR \o <<"}">>, 1) }

InitMigrate ==
    /\ pc = "migrate"
    /\ agents = <<"claude">>
    /\ src = NoSource
    /\ opts = NoOpts
    /\ \E o \in OldDirShapes, n \in NewDirShapes, c \in MigrateCommandShapes,
          a \in MigrateAgentShapes, v \in MigrateSettingsShapes :
           fs = Overlay(Overlay(Overlay(Overlay(o, n), c), a), v)
    /\ dirs \in {DirsOf(fs), DirsOf(fs) \cup {NewSpecforgeDir}}
    /\ clock = MaxMtime
    /\ last = NoReport
    /\ snap = [fs |-> fs, dirs |-> dirs]

\* forge migrate
Migrate ==
    /\ pc = "migrate"
    /\ Step("migrate", migrate(fs, dirs, clock), "migrated")

NextMigrate == Migrate

SpecMigrate == InitMigrate /\ [][NextMigrate]_vars

(***************************************************************************)
(* Properties of the synchronizers (SpecSync).                             *)
(***************************************************************************)
\* the context paths of the installed agents that hold a file in f
ExistingContext(f) == {p \in ContextPathsOf(agents) : p \in DOMAIN f}

\* B is the one context file modified strictly later than every other
StrictNewestContext(f, B) ==
    /\ B \in ExistingContext(f)
    /\ \A q \in ExistingContext(f) \ {B} : f[q].mtime < f[B].mtime

WrittenPaths == {last.writes[i].path : i \in 1..Len(last.writes)}

\* C3: after a complete pass of sync_context_files in which one context file B
\* was modified strictly later than every other, the context file of every
\* installed agent with another path exists and holds exactly B's body (B's
\* content without its leading frontmatter block) in that agent's wrapper,
\* and B itself is not written.
C3_WinnerSelection ==
    last.op = "context" =>
        \A B \in ContextPathsOf(agents) :
            StrictNewestContext(snap.fs, B) =>
                LET body == extract_markdown_body(snap.fs[B].content)
                IN  /\ \A a \in Range(agents) :
                          AGENT_CONTEXT_PATHS(a) # B =>
                              /\ AGENT_CONTEXT_PATHS(a) \in DOMAIN fs
                              /\ fs[AGENT_CONTEXT_PATHS(a)].content =
                                     format_context_for_agent(a, body)
                    /\ fs[B] = snap.fs[B]
                    /\ B \notin WrittenPaths

\* a pass with a strict winner whose frontmatter was stripped, two targets
\* written, one of them overwritten and one wrapped for cursor-agent
C3_Witness ==
    /\ last.op = "context"
    /\ Len(last.writes) >= 2
    /\ \E B \in ContextPathsOf(agents) :
           /\ StrictNewestContext(snap.fs, B)
           /\ extract_markdown_body(snap.fs[B].content) # snap.fs[B].content
           /\ \E p \in DOMAIN snap.fs : p # B /\ fs[p].content # snap.fs[p].content
    /\ <<".cursor", "rules", "specify-rules.mdc">> \in WrittenPaths

\* C4: in a pass of sync_context_files each existing context path is entered
\* once as a candidate, for the first listed agent that uses it, however many
\* agents share it; no path is written twice; the winner's path is not written.
C4_AliasedOnce ==
    last.op \in {"context", "context-cut"} =>
        LET cands == ContextCandidates(snap.fs, agents)
        IN  /\ \A p \in ExistingContext(snap.fs) :
                   Cardinality({i \in 1..Len(cands) : cands[i].path = p}) = 1
            /\ \A i \in 1..Len(cands) :
                   /\ cands[i].path \in ExistingContext(snap.fs)
                   /\ AGENT_CONTEXT_PATHS(cands[i].agent) = cands[i].path
                   /\ \A k \in 1..Len(agents) :
                          AGENT_CONTEXT_PATHS(agents[k]) = cands[i].path =>
                              \E m \in 1..k : agents[m] = cands[i].agent
            /\ \A i, j \in 1..Len(last.writes) :
                   i # j => last.writes[i].path # last.writes[j].path
            /\ \A i \in 1..Len(last.winners) : last.winners[i].path \notin WrittenPaths

\* opencode and codex are both installed, AGENTS.md existed and another file
\* won: AGENTS.md was a candidate and has been written
C4_Witness ==
    /\ last.op = "context"
    /\ {"opencode", "codex"} \subseteq Range(agents)
    /\ <<"AGENTS.md">> \in DOMAIN snap.fs
    /\ <<"AGENTS.md">> \in WrittenPaths
    /\ Len(agents) = 3

\* C5: a second pass of sync_context_files run right after a first one, with
\* no edit in between, writes no context file.
C5_SecondPassWritesNothing ==
    (last.op = "context" /\ last.prev = "context") =>
        /\ last.synced = 0
        /\ fs = snap.fs

\* the agents of the list that hold a copy of the working file `slot` in f
Holders(f, slot) == {a \in Range(agents) : WorkPath(a, slot) \in DOMAIN f}

PositionOf(a) == CHOOSE i \in 1..Len(agents) : agents[i] = a

\* the canonical candidate of a working file on f: a holder of greatest
\* modification time, the first such in the agent list
Canonical(f, slot) ==
    CHOOSE a \in Holders(f, slot) :
        \A b \in Holders(f, slot) :
            \/ f[WorkPath(b, slot)].mtime < f[WorkPath(a, slot)].mtime
            \/ /\ f[WorkPath(b, slot)].mtime = f[WorkPath(a, slot)].mtime
               /\ PositionOf(a) <= PositionOf(b)

AllHold(slot, content) ==
    \A a \in Range(agents) :
        /\ WorkPath(a, slot) \in DOMAIN fs
        /\ fs[WorkPath(a, slot)].content = content

\* C6: (1) a complete pass of sync_agent_working_files copies a file held by
\* one agent only to every agent; (2) a pass that follows an edit of one
\* agent's copy of x/y.txt, stamped later than every other copy, gives every
\* agent the edited bytes; (3) a pass that follows a complete pass with no
\* edit in between writes nothing.
C6_ThreePasses ==
    /\ last.op = "working" =>
           \A s \in WorkSlots : \A A \in Range(agents) :
               Holders(snap.fs, s) = {A} =>
                   AllHold(s, snap.fs[WorkPath(A, s)].content)
    /\ (last.op = "working" /\ last.prev = "edit") =>
           \E B \in Holders(snap.fs, EditedSlot) :
               /\ \A a \in Holders(snap.fs, EditedSlot) \ {B} :
                      snap.fs[WorkPath(a, EditedSlot)].mtime
                          < snap.fs[WorkPath(B, EditedSlot)].mtime
               /\ AllHold(EditedSlot, snap.fs[WorkPath(B, EditedSlot)].content)
    /\ (last.op = "working" /\ last.prev = "working") =>
           /\ last.synced = 0
           /\ fs = snap.fs
           /\ dirs = snap.dirs

\* three agents; a pass, an edit, a pass that spread the edited bytes, and a
\* third pass
C6_Witness ==
    /\ last.hist = <<"working", "edit", "working", "working">>
    /\ Len(agents) = 3
    /\ AllHold(EditedSlot, <<"e">>)
    /\ last.synced = 0

\* C7 as claimed: after a complete pass every installed agent's copy of every
\* working file found has the bytes of the canonical candidate.
C7_AllCopiesEqual ==
    last.op = "working" =>
        \A s \in WorkSlots :
            Holders(snap.fs, s) # {} =>
                AllHold(s, snap.fs[WorkPath(Canonical(snap.fs, s), s)].content)

\* C7 amended: after a complete pass, for every working file found there was
\* exactly one canonical candidate, a most recently modified one; every
\* installed agent has a copy; a copy that was missing or strictly older than
\* the canonical one has the canonical bytes and modification time; a copy as
\* recent as the canonical one is left as it was.
C7_OlderCopiesEqual ==
    last.op = "working" =>
        \A s \in WorkSlots :
            Holders(snap.fs, s) # {} =>
                LET c == Canonical(snap.fs, s)
                    cf == snap.fs[WorkPath(c, s)]
                IN  /\ Cardinality({i \in 1..Len(last.winners) :
                           last.winners[i].sub \o last.winners[i].rel
                               = s.sub \o s.rel}) = 1
                    /\ \A i \in 1..Len(last.winners) :
                           last.winners[i].sub \o last.winners[i].rel = s.sub \o s.rel
                               => last.winners[i].agent = c
                    /\ \A a \in Range(agents) :
                           LET p == WorkPath(a, s)
                           IN  /\ p \in DOMAIN fs
                               /\ IF p \in DOMAIN snap.fs /\ snap.fs[p].mtime >= cf.mtime
                                  THEN fs[p] = snap.fs[p]
                                  ELSE fs[p] = cf

\* three copies of one file: the canonical one, one as recent with other
\* bytes (kept), one older (overwritten)
C7_Witness ==
    /\ last.op = "working"
    /\ \E s \in WorkSlots :
           /\ Cardinality(Holders(snap.fs, s)) = 3
           /\ \E a, b \in Range(agents) :
                  /\ fs[WorkPath(a, s)].content # fs[WorkPath(b, s)].content
                  /\ fs[WorkPath(a, s)].mtime = fs[WorkPath(b, s)].mtime
           /\ \E a \in Range(agents) :
                  fs[WorkPath(a, s)].content # snap.fs[WorkPath(a, s)].content

\* the first agent of the list whose context path is p
FirstUser(p) ==
    agents[CHOOSE k \in 1..Len(agents) :
               /\ AGENT_CONTEXT_PATHS(agents[k]) = p
               /\ \A m \in 1..(k - 1) : AGENT_CONTEXT_PATHS(agents[m]) # p]

\* the winner of a context pass started on f: a context file of greatest
\* modification time, the one of the earliest listed agent among such
ContextWinner(f) ==
    CHOOSE B \in ExistingContext(f) :
        \A q \in ExistingContext(f) :
            \/ f[q].mtime < f[B].mtime
            \/ /\ f[q].mtime = f[B].mtime
               /\ PositionOf(FirstUser(B)) <= PositionOf(FirstUser(q))

SlotOf(w) == [sub |-> w.sub, rel |-> w.rel]

\* C8: reads precede writes.  In a pass of sync_context_files, complete or
\* interrupted, the winner is the winner on the files as they were before the
\* pass, and every write carries the body of that file as it was then.  In a
\* pass of sync_agent_working_files the winner chosen for each relative path
\* of each subtree is the canonical candidate on the files as they were
\* before the pass, and every written copy has that candidate's bytes and
\* modification time as they were before the pass.
C8_ReadBeforeWrite ==
    /\ last.op \in {"context", "context-cut"} =>
           /\ (last.winners = <<>>) <=> (ExistingContext(snap.fs) = {})
           /\ \A i \in 1..Len(last.winners) :
                  /\ last.winners[i].path = ContextWinner(snap.fs)
                  /\ last.winners[i].agent = FirstUser(ContextWinner(snap.fs))
           /\ \A i \in 1..Len(last.writes) :
                  LET w == last.writes[i]
                      B == ContextWinner(snap.fs)
                  IN  /\ w.from = FirstUser(B)
                      /\ fs[w.path].content =
                             format_context_for_agent(
                                 w.agent, extract_markdown_body(snap.fs[B].content))
    /\ last.op \in {"working", "working-cut"} =>
           /\ \A i \in 1..Len(last.winners) :
                  /\ SlotOf(last.winners[i]) \in WorkSlots
                  /\ Holders(snap.fs, SlotOf(last.winners[i])) # {}
                  /\ last.winners[i].agent
                         = Canonical(snap.fs, SlotOf(last.winners[i]))
           /\ \A i \in 1..Len(last.writes) :
                  \E s \in WorkSlots :
                      /\ last.writes[i].path = WorkPath(last.writes[i].agent, s)
                      /\ last.writes[i].from = Canonical(snap.fs, s)
                      /\ fs[last.writes[i].path]
                             = snap.fs[WorkPath(Canonical(snap.fs, s), s)]

\* a complete working-tree pass that wrote in both subtrees, the second one
\* collected after the writes to the first
C8_Witness ==
    /\ last.op = "working"
    /\ \E i, j \in 1..Len(last.writes) :
           /\ i < j
           /\ last.writes[i].path[2] = "skills"
           /\ last.writes[j].path[2] = "agents"
           /\ last.writes[i].from # last.writes[j].from

\* every agent holds the canonical content recorded when a pass was
\* interrupted: a context file is that body in the agent's wrapper, or a file
\* whose body is that body; a working file has the winner's bytes
HoldsGoal ==
    IF pc = "context"
    THEN \A a \in Range(agents) :
             <<"context">> \in DOMAIN last.goal =>
                 /\ AGENT_CONTEXT_PATHS(a) \in DOMAIN fs
                 /\ \/ fs[AGENT_CONTEXT_PATHS(a)].content =
                           format_context_for_agent(a, last.goal[<<"context">>])
                    \/ extract_markdown_body(fs[AGENT_CONTEXT_PATHS(a)].content)
                           = last.goal[<<"context">>]
    ELSE \A k \in DOMAIN last.goal : \A a \in Range(agents) :
             /\ <<AgentFolder(a)>> \o k \in DOMAIN fs
             /\ fs[<<AgentFolder(a)>> \o k].content = last.goal[k]

IsPass(op) == op \in {"context", "working"}

\* C9: a complete pass that follows an interrupted pass, with no edit in
\* between, leaves every agent's copy with the content of the winner of the
\* interrupted pass, and one more pass changes no content.
C9_ConvergesAfterInterruption ==
    /\ (IsPass(last.op) /\ IsCut(last.prev)) => HoldsGoal
    /\ (/\ last.n >= 3
        /\ IsPass(last.op)
        /\ IsPass(last.prev)
        /\ IsCut(last.hist[last.n - 2])) =>
           /\ DOMAIN fs = DOMAIN snap.fs
           /\ \A p \in DOMAIN fs : fs[p].content = snap.fs[p].content

(***************************************************************************)
(* Properties of the update command (Spec).                                *)
(***************************************************************************)
\* the memory subtree of files f: its files and the content of each
MemoryOf(f) == [p \in Under(f, MemoryRoot) |-> f[p].content]

\* the directories of d in the memory subtree
MemoryDirs(d) == {p \in d : IsPrefix(MemoryRoot, p)}

\* the paths whose file was created, modified or deleted by the last step
ChangedPaths ==
    {p \in DOMAIN fs \cup DOMAIN snap.fs :
        \/ p \notin DOMAIN fs
        \/ p \notin DOMAIN snap.fs
        \/ fs[p] # snap.fs[p]}

\* C1: no step of the update command (shared resources, regeneration of the
\* commands of every agent, context sync, working-file sync, chmod) creates,
\* modifies or deletes a file of the memory subtree: the set of files under
\* .specforge/memory and the content of each are the same after every step.
C1_MemoryUntouched ==
    [][/\ MemoryOf(fs') = MemoryOf(fs)
       /\ MemoryDirs(dirs') = MemoryDirs(dirs)]_vars

\* a finished update with all five steps run for two agents, on a project
\* whose memory holds two files, one of which differs from the file of the
\* same name in the source; the commands were regenerated and a script made
\* executable
C1_Witness ==
    /\ pc = "done"
    /\ ~opts.skip_sync
    /\ src.has_bundled
    /\ Len(agents) = 2
    /\ Cardinality(Under(fs, MemoryRoot)) = 2
    /\ <<"memory", "constitution.md">> \in DOMAIN src.bundled.files
    /\ fs[Append(MemoryRoot, "constitution.md")].content
           # src.bundled.files[<<"memory", "constitution.md">>].content
    /\ \A a \in Range(agents) :
           /\ CommandFile(a, "plan") \in DOMAIN fs
           /\ fs[CommandFile(a, "plan")].content # <<"o", "l", "d">>
    /\ \E p \in Under(fs, ScriptsDest) : fs[p].x

\* C2: update_shared_resources, on the bundled branch and on the download
\* branch, returning True or False, leaves the memory subtree as it was, and
\* every file it creates, modifies or deletes lies under .specforge/scripts
\* or .specforge/templates.
C2_SharedFrame ==
    last.op = "shared" =>
        /\ MemoryOf(fs) = MemoryOf(snap.fs)
        /\ MemoryDirs(dirs) = MemoryDirs(snap.dirs)
        /\ \A p \in ChangedPaths :
               \/ IsPrefix(<<".specforge", "scripts">>, p)
               \/ IsPrefix(<<".specforge", "templates">>, p)

\* the download branch succeeded on a project with memory: the archive holds
\* a memory file with other content, a stale script was deleted with the
\* scripts subtree, and a template was replaced
C2_Witness ==
    /\ last.op = "shared"
    /\ last.ok
    /\ ~src.has_bundled \/ opts.force_download
    /\ Under(snap.fs, MemoryRoot) # {}
    /\ \E p \in DOMAIN src.archive.files :
           /\ Name(p) = "constitution.md"
           /\ src.archive.files[p].content
                  # snap.fs[Append(MemoryRoot, "constitution.md")].content
    /\ \E p \in Under(snap.fs, <<".specforge", "scripts">>) : p \notin DOMAIN fs
    /\ \E p \in Under(fs, <<".specforge", "templates">>) :
           p \in DOMAIN snap.fs /\ fs[p].content # snap.fs[p].content

(***************************************************************************)
(* Properties of the renderer (SpecRender).                                *)
(***************************************************************************)
\* the value the registry gives the agent for a piece: the token's own value,
\* or the text itself
PieceValue(a, i) ==
    CASE i = 1 -> AgentKeyChars(a)
      [] i = 2 -> AgentDirChars(a)
      [] i = 3 -> AgentName(a)
      [] i = 4 -> AgentContextFile(a)
      [] i = 5 -> AgentContextGlob(a)
      [] i = 6 -> AgentProjectDirEnv(a)
      [] OTHER -> PieceText(i)

RECURSIVE ValuesOf(_, _)
ValuesOf(a, pieces) ==
    IF pieces = <<>> THEN <<>>
    ELSE PieceValue(a, Head(pieces)) \o ValuesOf(a, Tail(pieces))

\* the expected output file: the values in the agent's wrapper (the template
\* has no description)
ExpectedOutput(a, pieces) ==
    IF FileExt(a) = "toml"
    THEN TOML_HEAD \o TOML_MID \o ValuesOf(a, pieces) \o TOML_TAIL
    ELSE ValuesOf(a, pieces)

\* what a half-substituted token would leave: the head every token starts
\* with, or the agent key followed by the tail of a longer token
TokenFragments(a) ==
    {<<"_", "_", "A", "G", "E", "N", "T", "_">>}
        \cup {AgentKeyChars(a) \o From(PieceText(i), Len(TOK_AGENT) - 2) : i \in 2..6}

\* C10: a template body made of the agent-key token, the longer agent-scoped
\* tokens and plain text, in any order and number, renders with every
\* occurrence of each token replaced by that token's own value for the
\* agent, and with no fragment of a token left.
C10_TokensSubstituted ==
    pc = "rendered" =>
        /\ last.ok
        /\ CommandFile(agents[1], "plan") \in DOMAIN fs
        /\ fs[CommandFile(agents[1], "plan")].content
               = ExpectedOutput(agents[1], src.pieces)
        /\ \A frag \in TokenFragments(agents[1]) :
               Find(fs[CommandFile(agents[1], "plan")].content, frag, 0) = -1

\* a rendered body that holds the agent-key token between two occurrences of
\* a longer token
C10_Witness ==
    /\ pc = "rendered"
    /\ Len(src.pieces) = 3
    /\ src.pieces[2] = 1
    /\ src.pieces[1] \in 2..6
    /\ src.pieces[3] = src.pieces[1]
    /\ CommandFile(agents[1], "plan") \in DOMAIN fs

(***************************************************************************)
(* Properties of the context synchronizer: empty and missing files         *)
(* (SpecSync).                                                             *)
(***************************************************************************)
\* C11: a complete pass of sync_context_files that finds no candidate writes
\* and creates no file and no directory, and reports nothing synced and
\* nothing created.
C11_NoCandidateNoOp ==
    (last.op = "context" /\ ContextCandidates(snap.fs, agents) = <<>>) =>
        /\ fs = snap.fs
        /\ dirs = snap.dirs
        /\ last.synced = 0
        /\ last.created = 0
        /\ last.writes = <<>>
        /\ last.winners = <<>>

\* a complete pass for two or more agents, one of them with a context file in
\* a folder that does not exist yet, on a project without any context file
C11_Witness ==
    /\ last.op = "context"
    /\ Len(agents) >= 2
    /\ "cursor-agent" \in Range(agents)
    /\ ContextCandidates(snap.fs, agents) = <<>>
    /\ \A a \in Range(agents) : AGENT_CONTEXT_PATHS(a) \notin DOMAIN fs

\* C12: after a complete pass of sync_context_files with at least one
\* candidate, the context file of every installed agent exists, in a
\* directory that exists; the synced count is the number of distinct context
\* paths other than the winner's, and the created count is the number of
\* those that did not exist before the pass.
C12_CreatesMissing ==
    (last.op = "context" /\ ExistingContext(snap.fs) # {}) =>
        /\ \A a \in Range(agents) :
               /\ AGENT_CONTEXT_PATHS(a) \in DOMAIN fs
               /\ Ancestors(Parent(AGENT_CONTEXT_PATHS(a))) \subseteq dirs
        /\ last.synced =
               Cardinality(ContextPathsOf(agents) \ {ContextWinner(snap.fs)})
        /\ last.created =
               Cardinality({p \in ContextPathsOf(agents) \ {ContextWinner(snap.fs)} :
                               p \notin DOMAIN snap.fs})

\* a complete pass for three agents, two of which share AGENTS.md, that
\* created the shared file and counted it once, and created a context file in
\* a folder that did not exist
C12_Witness ==
    /\ last.op = "context"
    /\ Len(agents) = 3
    /\ {"opencode", "codex"} \subseteq Range(agents)
    /\ <<"AGENTS.md">> \notin DOMAIN snap.fs
    /\ <<"AGENTS.md">> \in DOMAIN fs
    /\ last.synced = 1
    /\ last.created = 1

(***************************************************************************)
(* Properties of the working-file synchronizer: deletions and              *)
(* independence of paths (SpecSync).                                       *)
(***************************************************************************)
\* C13: no pass of sync_agent_working_files, complete or interrupted, deletes
\* a file or a directory; a complete pass copies a file held by exactly one
\* agent to every other agent, in directories it creates as needed; and a
\* complete pass that follows the deletion of one agent's copy puts a copy
\* back there as long as another agent still holds the file.
C13_NeverDeletes ==
    /\ last.op \in {"working", "working-cut"} =>
           /\ DOMAIN snap.fs \subseteq DOMAIN fs
           /\ snap.dirs \subseteq dirs
    /\ last.op = "working" =>
           \A s \in WorkSlots : \A A \in Range(agents) :
               Holders(snap.fs, s) = {A} =>
                   \A a \in Range(agents) :
                       /\ WorkPath(a, s) \in DOMAIN fs
                       /\ fs[WorkPath(a, s)].content
                              = snap.fs[WorkPath(A, s)].content
                       /\ Ancestors(Parent(WorkPath(a, s))) \subseteq dirs
    /\ (last.op = "working" /\ last.prev = "delete") =>
           (Holders(snap.fs, EditedSlot) # {} =>
                Holders(fs, EditedSlot) = Range(agents))

\* three agents: a complete pass, the deletion of one agent's copy of a file
\* that the two others keep, and a complete pass that wrote the copy again
C13_Witness ==
    /\ last.hist = <<"working", "delete", "working">>
    /\ Len(agents) = 3
    /\ Cardinality(Holders(snap.fs, EditedSlot)) = 2
    /\ Holders(fs, EditedSlot) = Range(agents)
    /\ last.synced = 1

\* the files of f that are a copy of the working file slot
OnlySlot(f, slot) ==
    [p \in {WorkPath(a, slot) : a \in Holders(f, slot)} |-> f[p]]

\* what a complete pass leaves at path p when the project holds nothing but
\* the copies of slot that f holds: content and modification time, or "none"
AloneResult(f, slot, p) ==
    LET g == sync_agent_working_files(agents, OnlySlot(f, slot),
                                      DirsOf(OnlySlot(f, slot)), clock).fs
    IN  IF p \in DOMAIN g THEN <<g[p].content, g[p].mtime>> ELSE <<"none">>

\* content and modification time of p in the project, or "none"
ActualResult(p) ==
    IF p \in DOMAIN fs THEN <<fs[p].content, fs[p].mtime>> ELSE <<"none">>

\* C14: what a complete pass of sync_agent_working_files leaves under every
\* agent for a relative path of a subtree (content and modification time) is
\* what it would leave had the project held the copies of that path only: it
\* is a function of the candidates of the path, whatever the other files of
\* the subtree and of the other subtree are.
C14_PerPathIndependence ==
    last.op = "working" =>
        \A s \in WorkSlots : \A a \in Range(agents) :
            ActualResult(WorkPath(a, s)) = AloneResult(snap.fs, s, WorkPath(a, s))

\* a complete pass on three agents that wrote copies of two files of the
\* skills subtree whose newest copies were held by different agents
C14_Witness ==
    /\ last.op = "working"
    /\ Len(agents) = 3
    /\ \E s, t \in WorkSlots :
           /\ s.sub = t.sub
           /\ s.rel # t.rel
           /\ Holders(snap.fs, s) # {}
           /\ Holders(snap.fs, t) # {}
           /\ Canonical(snap.fs, s) # Canonical(snap.fs, t)
           /\ Canonical(snap.fs, t) \in Holders(snap.fs, s)
           /\ \E i, j \in 1..Len(last.writes) :
                  /\ last.writes[i].path \in {WorkPath(a, s) : a \in Range(agents)}
                  /\ last.writes[j].path \in {WorkPath(a, t) : a \in Range(agents)}

(***************************************************************************)
(* Properties of generate_agent_commands (SpecGenerate).                   *)
(***************************************************************************)
\* the source has a templates/commands folder
HasCommandsFolder == CommandsSource \in src.bundled.dirs

\* C15: generate_agent_commands returns False and leaves the project as it
\* was (no directory made, no file written) when the source has no
\* templates/commands folder or the agent key is not in the command-directory
\* registry; in every other case it returns True.
C15_FalseWithoutWrites ==
    last.op = "commands" =>
        IF ~HasCommandsFolder \/ agents[1] \notin AgentKeys
        THEN /\ ~last.ok
             /\ fs = snap.fs
             /\ dirs = snap.dirs
        ELSE last.ok

\* a call for an unregistered key on the full source and a project with files
C15_Witness ==
    /\ last.op = "commands"
    /\ agents[1] = UnknownAgent
    /\ HasCommandsFolder
    /\ snap.fs # NoFiles
    /\ ~last.ok

\* what a stub holds for the manifest specforge.<n>.agent.md
StubHeader(n) ==
    <<"-","-","-","\n","a","g","e","n","t",":"," ",
      "s","p","e","c","f","o","r","g","e",".">> \o NameChars(n) \o <<"\n","-","-","-","\n">>

\* the stems of the command templates of the source
GeneratedNames ==
    {n \in TemplateNames : Append(CommandsSource, n \o ".md") \in DOMAIN src.bundled.files}

\* C16: after generate_agent_commands for copilot, every manifest
\* specforge.<name>.agent.md it generated into .github/agents has a stub
\* .github/prompts/specforge.<name>.prompt.md that holds the header naming
\* specforge.<name> and nothing of the manifest; for any other agent no stub
\* and no prompts directory is made.
C16_CompanionStubs ==
    (last.op = "commands" /\ last.ok) =>
        IF FileExt(agents[1]) = "agent.md"
        THEN \A n \in GeneratedNames :
                 LET manifest == Append(<<".github", "agents">>,
                                        "specforge." \o n \o ".agent.md")
                     stub == Append(<<".github", "prompts">>,
                                    "specforge." \o n \o ".prompt.md")
                 IN  /\ manifest \in DOMAIN fs
                     /\ stub \in DOMAIN fs
                     /\ fs[stub].content = StubHeader(n)
                     /\ fs[stub].content # fs[manifest].content
        ELSE /\ Under(fs, <<".github", "prompts">>) = Under(snap.fs, <<".github", "prompts">>)
             /\ <<".github", "prompts">> \in dirs => <<".github", "prompts">> \in snap.dirs

\* copilot on the source with two templates: two manifests, two stubs
C16_Witness ==
    /\ last.op = "commands"
    /\ agents[1] = "copilot"
    /\ GeneratedNames = {"plan", "tasks"}
    /\ Under(snap.fs, <<".github", "prompts">>) = {}
    /\ Cardinality(Under(fs, <<".github", "prompts">>)) >= 2

(***************************************************************************)
(* Properties of the settings merge (SpecMerge).                           *)
(***************************************************************************)
\* the destination's text before the call, or <<>> when there was none
ExistingText ==
    IF SettingsDest \in DOMAIN snap.fs THEN snap.fs[SettingsDest].content ELSE <<>>

\* the text of the source
NewText == src.bundled.files[VscodeSettings].content

\* the destination's text after the call
ResultText == fs[SettingsDest].content

\* the keys of a dict
KeysOf(entries) == {entries[i].k : i \in 1..Len(entries)}

\* the value of key k in a dict that has it
ValueOf(entries, k) == entries[KeyIndex(entries, k)].v

\* r is e merged with n by the stated rule, at this level and below
RECURSIVE MergedByRule(_, _, _)
MergedByRule(e, n, r) ==
    /\ KeysOf(r) = KeysOf(e) \cup KeysOf(n)
    /\ Cardinality(KeysOf(r)) = Len(r)
    /\ \A k \in KeysOf(r) :
           IF k \notin KeysOf(n) THEN ValueOf(r, k) = ValueOf(e, k)
           ELSE IF k \notin KeysOf(e) THEN ValueOf(r, k) = ValueOf(n, k)
           ELSE IF IsDict(ValueOf(e, k)) /\ IsDict(ValueOf(n, k))
           THEN /\ IsDict(ValueOf(r, k))
                /\ MergedByRule(json_load(ValueOf(e, k)), json_load(ValueOf(n, k)),
                                json_load(ValueOf(r, k)))
           ELSE ValueOf(r, k) = ValueOf(n, k)

\* C17: when the destination holds a JSON object E and the source a JSON
\* object N, the merged result keeps, at every level, E's value for a key
\* only in E, takes N's value for a key only in N, merges the two values of a
\* common key by the same rule when both are objects, and takes N's value
\* outright otherwise (an array is never concatenated); and merging N into
\* the result once more leaves the text as it is.
C17_DeepMerge ==
    (/\ last.op \in {"merged", "copied"}
     /\ IsJson(ExistingText) /\ IsDict(ExistingText)
     /\ IsJson(NewText) /\ IsDict(NewText)) =>
        /\ last.op = "merged"
        /\ IsJson(ResultText)
        /\ IsDict(ResultText)
        /\ MergedByRule(json_load(StripNL(ExistingText)), json_load(StripNL(NewText)),
                        json_load(StripNL(ResultText)))
        /\ last.prev = "merged" => ResultText = ExistingText

\* {a: {a: 1}, b: {a: 1}} merged with {a: {b: [1]}, b: [1]}
C17_Witness ==
    /\ last.op = "merged"
    /\ ExistingText = <<"{", "a", "{", "a", "1", "}", "b", "{", "a", "1", "}", "}">>
    /\ NewText = <<"{", "a", "{", "b", "[1]", "}", "b", "[1]", "}">>
    /\ ResultText = <<"{", "a", "{", "a", "1", "b", "[1]", "}", "b", "[1]", "}", "\n">>

\* C18: a text that cannot be parsed never stops handle_vscode_settings: a
\* destination that is no valid JSON ends up holding exactly the settings of
\* the source; a source that cannot be parsed is copied to the destination as
\* it is; with no destination the source is copied as it is.
C18_FailurePolicy ==
    last.op \in {"merged", "copied"} =>
        /\ SettingsDest \in DOMAIN fs
        /\ (SettingsDest \in DOMAIN snap.fs /\ ~IsJson(ExistingText) /\ IsJson(NewText)) =>
               /\ IsJson(ResultText)
               /\ Canon(StripNL(ResultText)) = Canon(StripNL(NewText))
        /\ ~IsJson(NewText) => fs[SettingsDest] = src.bundled.files[VscodeSettings]
        /\ SettingsDest \notin DOMAIN snap.fs =>
               fs[SettingsDest] = src.bundled.files[VscodeSettings]

\* an unreadable destination replaced by the settings of a source that
\* writes one key twice
C18_Witness ==
    /\ last.op = "merged"
    /\ ExistingText = <<"o">>
    /\ NewText = <<"{", "a", "1", "a", "[1]", "}">>
    /\ ResultText = <<"{", "a", "[1]", "}", "\n">>

(***************************************************************************)
(* Properties of update_shared_resources (Spec).                           *)
(***************************************************************************)
\* the call took the bundled branch
UsesBundled == src.has_bundled /\ ~opts.force_download

\* the files of the bundled scripts folder the call is to install: those of
\* the selected variant's folder and the loose files of the folder itself
SelectedScripts ==
    {p \in Under(src.bundled.files, <<"scripts">>) :
        Len(p) = 2 \/ p[2] = (IF opts.script_type = "sh" THEN "bash" ELSE "powershell")}

\* C19: after update_shared_resources from a bundled source that has a
\* scripts folder, the files under .specforge/scripts are exactly those of
\* the source's folder of the selected shell variant and the source's loose
\* files, with the source's content: nothing of the earlier scripts subtree
\* that the source lacks survives, and the other variant's folder is absent.
C19_ScriptsWholesale ==
    (last.op = "shared" /\ UsesBundled /\ <<"scripts">> \in src.bundled.dirs) =>
        /\ Under(fs, <<".specforge", "scripts">>)
               = {<<".specforge">> \o p : p \in SelectedScripts}
        /\ \A p \in SelectedScripts :
               fs[<<".specforge">> \o p].content = src.bundled.files[p].content
        /\ <<".specforge", "scripts",
             IF opts.script_type = "sh" THEN "powershell" ELSE "bash">> \notin dirs

\* the PowerShell variant installed over earlier bash scripts
C19_Witness ==
    /\ last.op = "shared"
    /\ UsesBundled
    /\ opts.script_type = "ps"
    /\ <<".specforge", "scripts", "bash", "stale.sh">> \in DOMAIN snap.fs
    /\ <<".specforge", "scripts", "bash">> \notin dirs
    /\ <<".specforge", "scripts", "powershell", "common.ps1">> \in DOMAIN fs
    /\ <<".specforge", "scripts", "loose.sh">> \in DOMAIN fs

\* the tree the call read and the templates folder in it
SharedTree == IF UsesBundled THEN src.bundled ELSE src.archive

TemplatesRoot ==
    IF UsesBundled THEN <<"templates">>
    ELSE SourceDir(src.archive) \o <<".specforge", "templates">>

\* the files of the source templates folder, by path relative to it
TemplateRels ==
    {From(p, Len(TemplatesRoot)) : p \in Under(SharedTree.files, TemplatesRoot)}

\* the templates subtree after the call, for the relative paths that are
\* copied when the entries named in skipped are left out: every other file of
\* the source is there with the source's content, every earlier file without
\* a counterpart in the source is as it was, and no left-out entry was copied
TemplatesReplaced(skipped) ==
    /\ \A r \in TemplateRels :
           IF r[1] \in skipped
           THEN \/ /\ (<<".specforge", "templates">> \o r) \notin DOMAIN fs
                   /\ (<<".specforge", "templates">> \o r) \notin DOMAIN snap.fs
                \/ /\ (<<".specforge", "templates">> \o r) \in DOMAIN fs
                   /\ (<<".specforge", "templates">> \o r) \in DOMAIN snap.fs
                   /\ fs[<<".specforge", "templates">> \o r]
                          = snap.fs[<<".specforge", "templates">> \o r]
           ELSE /\ (<<".specforge", "templates">> \o r) \in DOMAIN fs
                /\ fs[<<".specforge", "templates">> \o r].content
                       = SharedTree.files[TemplatesRoot \o r].content
    /\ \A q \in Under(snap.fs, <<".specforge", "templates">>) :
           From(q, 2) \notin TemplateRels => (q \in DOMAIN fs /\ fs[q] = snap.fs[q])

\* the kind of every earlier entry of the templates subtree is the kind of
\* the source entry of the same relative path
SameKinds ==
    \A r \in TemplateRels : (<<".specforge", "templates">> \o r) \notin snap.dirs

TomlEscapes == {"b", "t", "n", "f", "r", "\"", "\\"}

\* the index of the quote that closes the basic string whose first
\* character is at i, or 0 when the string is not well formed
RECURSIVE BasicEnd(_, _)
BasicEnd(s, i) ==
    IF i > Len(s) \/ s[i] = "\n" THEN 0
    ELSE IF s[i] = "\"" THEN i
    ELSE IF s[i] = "\\"
    THEN IF i + 1 <= Len(s) /\ s[i + 1] \in TomlEscapes THEN BasicEnd(s, i + 2) ELSE 0
    ELSE BasicEnd(s, i + 1)

\* the index of the first of the three quotes that close the multi-line
\* basic string whose first character is at i, or 0
RECURSIVE MultiEnd(_, _)
MultiEnd(s, i) ==
    IF i > Len(s) THEN 0
    ELSE IF StartsWith(From(s, i - 1), <<"\"", "\"", "\"">>) THEN i
    ELSE IF s[i] = "\\"
    THEN IF i + 1 <= Len(s) /\ s[i + 1] \in TomlEscapes \cup {"\n"}
         THEN MultiEnd(s, i + 2) ELSE 0
    ELSE MultiEnd(s, i + 1)

\* the value of a string body whose escapes are well formed
RECURSIVE TomlUnescape(_)
TomlUnescape(s) ==
    IF s = <<>> THEN <<>>
    ELSE IF s[1] = "\\"
    THEN (CASE s[2] = "n" -> <<"\n">>
            [] s[2] = "t" -> <<"\t">>
            [] s[2] = "r" -> <<"\r">>
            [] s[2] = "\"" -> <<"\"">>
            [] s[2] = "\\" -> <<"\\">>
            [] OTHER -> <<>>) \o TomlUnescape(From(s, 2))
    ELSE <<s[1]>> \o TomlUnescape(From(s, 1))

\* up to two quotes right before the closing three belong to the string
ExtraQuotes(s, m) ==
    IF StartsWith(From(s, m + 2), <<"\"", "\"">>) THEN 2
    ELSE IF StartsWith(From(s, m + 2), <<"\"">>) THEN 1
    ELSE 0

NoToml == [ok |-> FALSE, description |-> <<>>, prompt |-> <<>>]

\* the prompt string from index p on, closed at m; nothing but the end of
\* the line may follow it
TomlPrompt(s, description, p, m) ==
    IF m = 0 THEN NoToml
    ELSE IF From(s, m + 2 + ExtraQuotes(s, m)) # <<"\n">> THEN NoToml
    ELSE [ok |-> TRUE, description |-> description,
          prompt |-> TomlUnescape(SubSeq(s, p, m - 1))
                         \o SubSeq(s, m, m + ExtraQuotes(s, m) - 1)]

\* the description string closed at e, then the prompt
TomlAfterDescription(s, e) ==
    IF e = 0 THEN NoToml
    ELSE IF ~StartsWith(From(s, e - 1), TOML_MID) THEN NoToml
    ELSE TomlPrompt(s, TomlUnescape(SubSeq(s, Len(TOML_HEAD) + 1, e - 1)),
                    e + Len(TOML_MID), MultiEnd(s, e + Len(TOML_MID)))

\* the document description = "..." prompt = """...""" read as TOML
ParseToml(s) ==
    IF ~StartsWith(s, TOML_HEAD) THEN NoToml
    ELSE TomlAfterDescription(s, BasicEnd(s, Len(TOML_HEAD) + 1))

\* the body of a prompt value: the value without the line end that the
\* wrapper puts before the closing quotes
PromptBody(v) ==
    IF v # <<>> /\ v[Len(v)] = "\n" THEN SubSeq(v, 1, Len(v) - 1) ELSE v

\* the artifact of the markdown agent with the TOML agent's placeholder
MarkdownAsToml ==
    Replace(fs[CommandFile("claude", "plan")].content,
            ArgFormat("claude"), ArgFormat("gemini"))

\* C21: the artifact generated for the TOML agent, read as TOML, has a
\* description equal to the description of the template's frontmatter and a
\* prompt whose body equals the artifact generated from the same template for
\* the markdown agent, up to the argument placeholder.
C21_TomlRoundTrip ==
    last.op = "commands" =>
        /\ ParseToml(fs[CommandFile("gemini", "plan")].content).ok
        /\ ParseToml(fs[CommandFile("gemini", "plan")].content).description = src.desc
        /\ PromptBody(ParseToml(fs[CommandFile("gemini", "plan")].content).prompt)
               = MarkdownAsToml

\* the round trip where the description holds no quote and no backslash and
\* the body no quote
PlainTemplateRoundTrip ==
    (/\ last.op = "commands"
     /\ \A i \in 1..Len(src.desc) : src.desc[i] \notin {"\"", "\\"}
     /\ \A i \in 1..Len(src.body) : src.body[i] # "\"") =>
        /\ ParseToml(fs[CommandFile("gemini", "plan")].content).ok
        /\ ParseToml(fs[CommandFile("gemini", "plan")].content).description = src.desc
        /\ PromptBody(ParseToml(fs[CommandFile("gemini", "plan")].content).prompt)
               = MarkdownAsToml

(***************************************************************************)
(* Further properties of the synchronizers (SpecSync).                     *)
(***************************************************************************)
\* C22: in a complete pass of sync_agent_working_files, for each relative
\* path and each installed agent other than the canonical candidate's, the
\* agent's copy is written if and only if it does not exist or its
\* modification time is strictly older than the canonical candidate's; a
\* written copy has the canonical bytes and modification time; a copy as
\* recent as the canonical one or newer is left as it was; the canonical file
\* is never written.
C22_OverwriteRule ==
    last.op = "working" =>
        \A s \in WorkSlots :
            Holders(snap.fs, s) # {} =>
                /\ WorkPath(Canonical(snap.fs, s), s) \notin WrittenPaths
                /\ fs[WorkPath(Canonical(snap.fs, s), s)]
                       = snap.fs[WorkPath(Canonical(snap.fs, s), s)]
                /\ \A a \in Range(agents) \ {Canonical(snap.fs, s)} :
                       IF \/ WorkPath(a, s) \notin DOMAIN snap.fs
                          \/ snap.fs[WorkPath(a, s)].mtime
                                 < snap.fs[WorkPath(Canonical(snap.fs, s), s)].mtime
                       THEN /\ WorkPath(a, s) \in WrittenPaths
                            /\ fs[WorkPath(a, s)].content
                                   = snap.fs[WorkPath(Canonical(snap.fs, s), s)].content
                            /\ fs[WorkPath(a, s)].mtime
                                   = snap.fs[WorkPath(Canonical(snap.fs, s), s)].mtime
                       ELSE /\ WorkPath(a, s) \notin WrittenPaths
                            /\ fs[WorkPath(a, s)] = snap.fs[WorkPath(a, s)]

\* a pass on three agents that wrote one copy that was missing, and left
\* alone a copy as recent as the canonical one with other bytes
C22_Witness ==
    /\ last.op = "working"
    /\ Len(agents) = 3
    /\ \E s \in WorkSlots : \E a, b \in Range(agents) :
           /\ Holders(snap.fs, s) = Range(agents) \ {a}
           /\ b # Canonical(snap.fs, s)
           /\ snap.fs[WorkPath(b, s)].mtime
                  = snap.fs[WorkPath(Canonical(snap.fs, s), s)].mtime
           /\ snap.fs[WorkPath(b, s)].content
                  # snap.fs[WorkPath(Canonical(snap.fs, s), s)].content
           /\ WorkPath(a, s) \in WrittenPaths
           /\ fs[WorkPath(b, s)] = snap.fs[WorkPath(b, s)]

(***************************************************************************)
(* Properties of the section filter (SpecSections).                        *)
(***************************************************************************)
\* the command of the selected variant: that of the first line of the
\* template that gives one
VariantCommand(kinds, script_type) ==
    IF \E i \in 1..Len(kinds) : kinds[i] = script_type
    THEN IF script_type = "sh" THEN <<"a">> ELSE <<"b">>
    ELSE <<>>

\* the line as the filter meets it: the placeholder line holds the command
LineSeen(kind, command) == IF kind = "script" THEN command ELSE LineText(kind)

\* a line that ends a section: the --- mark or a top-level line, that is a
\* line that is not empty and does not start with a space
EndsSection(line) == line # <<>> /\ line[1] # " "

\* line i of the template is in a scripts: or agent_scripts: section: a
\* header, or a line that follows one with no ending line in between
InSection(kinds, i, command) ==
    \E j \in 1..i :
        /\ kinds[j] \in {"scripts", "agent_scripts"}
        /\ \A k \in (j + 1)..i :
               EndsSection(LineSeen(kinds[k], command))
                   => kinds[k] \in {"scripts", "agent_scripts"}

\* the lines of the template outside every section, in their order
RECURSIVE OutsideLines(_, _, _)
OutsideLines(kinds, i, command) ==
    IF i > Len(kinds) THEN <<>>
    ELSE (IF InSection(kinds, i, command) THEN <<>>
          ELSE <<LineSeen(kinds[i], command)>>)
             \o OutsideLines(kinds, i + 1, command)

\* the rendered content: the artifact, or the body of its prompt for TOML
RenderedContent ==
    IF FileExt(agents[1]) = "toml"
    THEN PromptBody(ParseToml(fs[CommandFile(agents[1], "plan")].content).prompt)
    ELSE fs[CommandFile(agents[1], "plan")].content

\* C23: the rendered output of a template holds no scripts: or
\* agent_scripts: header line and no line of the section that follows such a
\* header up to the next top-level line or --- mark, so the command of a
\* variant shows only where {SCRIPT} stood; every line outside the sections,
\* the line that ends a section included, is in the output, in the order of
\* the template.  The lines are those of the template with {SCRIPT} replaced.
C23_SectionsStripped ==
    last.op = "commands" =>
        RenderedContent
            = JoinLines(OutsideLines(src.kinds, 1,
                                     VariantCommand(src.kinds, opts.script_type)))

\* scripts:, its sh line, the closing mark, the placeholder: the output is
\* the mark and the command
C23_Witness ==
    /\ last.op = "commands"
    /\ src.kinds = <<"scripts", "sh", "mark", "script">>
    /\ opts.script_type = "sh"
    /\ agents[1] = "claude"
    /\ fs[CommandFile("claude", "plan")].content = <<"-", "-", "-", "\n", "a">>

(***************************************************************************)
(* The path rewrite (SpecPaths).                                           *)
(***************************************************************************)
FolderNames ==
    {<<"m","e","m","o","r","y">>, <<"s","c","r","i","p","t","s">>,
     <<"t","e","m","p","l","a","t","e","s">>}

\* the folder name that stands at index i of s (1-based), one / before it
\* allowed, with its / after it, where s[i] begins the text or follows a
\* line end, white space, a backquote or a quote; <<>> where none does
FolderAt(s, i) ==
    LET allowed == i = 1 \/ s[i - 1] \in {" ", "\t", "\n", "\r", Backquote, "\"", "'"}
        found == {w \in FolderNames :
                     \/ StartsWith(From(s, i - 1), w \o <<"/">>)
                     \/ StartsWith(From(s, i - 1), <<"/">> \o w \o <<"/">>)}
    IN  IF allowed /\ found # {} THEN CHOOSE w \in found : TRUE ELSE <<>>

\* s from index i on with every such occurrence replaced by
\* .specforge/<name>/ and every other character kept
RECURSIVE PrefixedFrom(_, _)
PrefixedFrom(s, i) ==
    IF i > Len(s) THEN <<>>
    ELSE LET w == FolderAt(s, i)
         IN  IF w = <<>> THEN <<s[i]>> \o PrefixedFrom(s, i + 1)
             ELSE <<".","s","p","e","c","f","o","r","g","e","/">> \o w \o <<"/">>
                      \o PrefixedFrom(s, i + Len(w) + (IF s[i] = "/" THEN 2 ELSE 1))

\* C24: the rewrite replaces memory/, scripts/ and templates/, one / before
\* them allowed, at the start of a line or after white space, a backquote or a
\* quote, by .specforge/<name>/, leaves every other character as it is, and
\* rewriting its own output changes nothing.
C24_RewriteIdempotent ==
    last.op = "commands" =>
        LET out == fs[CommandFile("claude", "plan")].content
        IN  /\ out = PrefixedFrom(PathText(src.kinds), 1)
            /\ rewrite_paths_for_bundled(out) = out

\* `/scripts/ after a backquote and an occurrence that already has its prefix
C24_Witness ==
    /\ last.op = "commands"
    /\ src.kinds = <<"tick", "slash", "scripts", "prefix">>
    /\ fs[CommandFile("claude", "plan")].content
           = <<Backquote>> \o PathPiece("prefix") \o PathPiece("scripts")
                 \o PathPiece("prefix")

(***************************************************************************)
(* The context wrapper (SpecSync).                                         *)
(***************************************************************************)
\* the canonical body of a complete context pass: the body of the winner on
\* the files as they were before the pass
PassBody == extract_markdown_body(snap.fs[ContextWinner(snap.fs)].content)

\* the wrapper of every installed agent, stripped again, gives body b
StripsBack(b) ==
    \A a \in Range(agents) :
        extract_markdown_body(format_context_for_agent(a, b)) = b

\* C25: for the canonical body b of a pass and every agent a,
\* _extract_markdown_body(_format_context_for_agent(a, b)) = b: whichever
\* agent's file is the next winner gives the same canonical body.
C25_WrapperRoundTrip ==
    (last.op = "context" /\ ExistingContext(snap.fs) # {}) => StripsBack(PassBody)

\* the round trip of the canonical bodies that do not begin with a line end
\* or with the --- mark
PlainBodyRoundTrip ==
    (/\ last.op = "context"
     /\ ExistingContext(snap.fs) # {}
     /\ PassBody # <<>>
     /\ Head(PassBody) # "\n"
     /\ ~StartsWith(PassBody, Dashes)) => StripsBack(PassBody)

(***************************************************************************)
(* Failures of the steps of update (Spec).                                 *)
(***************************************************************************)
\* generate_agent_commands returns False for agent a on the project as it
\* was before the commands step
FailsAlone(a) ==
    ~generate_agent_commands(a, opts.script_type, snap.fs, snap.dirs, clock,
                             src.bundled).ok

\* the command file of agent a was written by the last step
Regenerated(a) ==
    /\ CommandFile(a, "plan") \in DOMAIN fs
    /\ fs[CommandFile(a, "plan")] # snap.fs[CommandFile(a, "plan")]

\* C26: a failure of one step of update does not stop the others.  After
\* update_shared_resources returned False the shared step is marked as an
\* error and the regeneration of the commands runs; an agent for which
\* generate_agent_commands returns False is named in the error of the
\* commands step, which names exactly the agents that failed, and every other
\* agent gets its commands; the two synchronizations follow unless
\* --skip-sync was given, whatever the verdicts before them.
C26_FailureIsolation ==
    /\ last.op = "shared" => pc = "commands"
    /\ (last.op = "commands" /\ src.has_bundled) =>
           /\ last.cmd_errors = SelectSeq(agents, FailsAlone)
           /\ last.ok = (last.cmd_errors = <<>>)
           /\ \A a \in Range(agents) : ~FailsAlone(a) => Regenerated(a)
    /\ last.op = "commands" =>
           pc = IF opts.skip_sync THEN "chmod" ELSE "context-sync"
    /\ last.op = "context" => pc = "working-sync"
    /\ pc = "done" =>
           last.hist = IF opts.skip_sync THEN <<"shared", "commands", "chmod">>
                       ELSE <<"shared", "commands", "context", "working", "chmod">>

\* an update that ran to its end with both synchronizations although the
\* shared step failed (the download did) and the commands step failed for
\* each of two agents, both named
C26_Witness ==
    /\ pc = "done"
    /\ ~opts.skip_sync
    /\ last.oks = <<FALSE, FALSE, TRUE, TRUE, TRUE>>
    /\ src.has_bundled
    /\ Len(agents) = 2

\* the shared step failed and the commands of two agents were written
SharedFailedCommandsWritten ==
    /\ last.op = "commands"
    /\ last.oks = <<FALSE, TRUE>>
    /\ Len(agents) = 2
    /\ \A a \in Range(agents) : Regenerated(a)

(***************************************************************************)
(* Rollback of a failed init (SpecInit).                                   *)
(***************************************************************************)
\* C27: when init of a new project directory fails, at the bundled build, the
\* download, the extraction or a later step, the project directory does not
\* exist when the command exits and the downloaded archive is removed; with
\* --here the current directory is never deleted, whatever fails.
C27_InitRollback ==
    /\ (last.op = "init" /\ ~last.ok) =>
           /\ ZipPath \notin DOMAIN fs
           /\ ~opts.here =>
                  /\ <<"proj">> \notin dirs
                  /\ Under(fs, <<"proj">>) = {}
                  /\ \A p \in DOMAIN snap.fs : p \in DOMAIN fs /\ fs[p] = snap.fs[p]
    /\ (last.op = "init" /\ opts.here) =>
           /\ <<>> \in dirs
           /\ ZipPath \notin DOMAIN fs
           /\ DOMAIN snap.fs \subseteq DOMAIN fs

\* a new project whose bundled build failed, whose archive was downloaded
\* and whose extraction failed: the directory and the archive are gone and
\* the files of the user are where they were
C27_Witness ==
    /\ last.op = "init"
    /\ ~last.ok
    /\ pc = "extract"
    /\ ~opts.here
    /\ src.has_bundled
    /\ ~opts.force_download
    /\ <<"other", "a.txt">> \in DOMAIN fs

\* init --here failed in the extraction over a project of an earlier version
InitHereFailed ==
    /\ last.op = "init"
    /\ ~last.ok
    /\ pc = "extract"
    /\ opts.here
    /\ Append(MemoryRoot, "constitution.md") \in DOMAIN fs

(***************************************************************************)
(* Memory under migrate (SpecMigrate).                                     *)
(***************************************************************************)
OldMemory == Append(OldSpecifyDir, "memory")
NewMemory == Append(NewSpecforgeDir, "memory")

\* C28: migrate preserves memory.  When .specify/ and .specforge/ both exist,
\* every file of .specforge/memory is still there with the content it had (an
\* old file of the same name does not replace it), every memory file that
\* only the old directory had is in .specforge/memory with its content, and
\* .specify/ is gone after the merge; when only .specify/ exists it is
\* renamed, so every file of it, memory included, is kept as it was.
C28_MigrateKeepsMemory ==
    /\ (last.op = "migrate" /\ OldSpecifyDir \in snap.dirs /\ NewSpecforgeDir \in snap.dirs)
           => /\ \A p \in Under(snap.fs, NewMemory) :
                     p \in DOMAIN fs /\ fs[p].content = snap.fs[p].content
              /\ \A p \in Under(snap.fs, OldMemory) :
                     LET q == NewSpecforgeDir \o From(p, 1)
                     IN  /\ q \in DOMAIN fs
                         /\ q \notin DOMAIN snap.fs => fs[q].content = snap.fs[p].content
              /\ OldSpecifyDir \notin dirs
              /\ Under(fs, OldSpecifyDir) = {}
    /\ (last.op = "migrate" /\ OldSpecifyDir \in snap.dirs
                            /\ NewSpecforgeDir \notin snap.dirs)
           => /\ \A p \in Under(snap.fs, OldSpecifyDir) :
                     /\ NewSpecforgeDir \o From(p, 1) \in DOMAIN fs
                     /\ fs[NewSpecforgeDir \o From(p, 1)] = snap.fs[p]
              /\ OldSpecifyDir \notin dirs
              /\ Under(fs, OldSpecifyDir) = {}

\* both directories held memory/constitution.md with different content: the
\* new one's is kept, only.md of the old directory is carried over, and the
\* old template replaced the new one
C28_Witness ==
    /\ last.op = "migrate"
    /\ Append(OldMemory, "only.md") \in DOMAIN snap.fs
    /\ Append(NewMemory, "new.md") \in DOMAIN snap.fs
    /\ snap.fs[Append(OldMemory, "constitution.md")].content = <<"o", "m">>
    /\ fs[Append(NewMemory, "constitution.md")].content = <<"n", "m">>
    /\ fs[Append(NewMemory, "only.md")].content = <<"o", "o">>
    /\ OldSpecifyDir \notin dirs

\* only .specify/ existed and was renamed
MigrateRenamed ==
    /\ last.op = "migrate"
    /\ OldSpecifyDir \in snap.dirs
    /\ NewSpecforgeDir \notin snap.dirs
    /\ Append(NewMemory, "only.md") \in DOMAIN fs

(***************************************************************************)
(* Ties of modification time (SpecSync).                                   *)
(***************************************************************************)
\* the context files of greatest modification time in f
TopContext(f) ==
    {p \in ExistingContext(f) : \A q \in ExistingContext(f) : f[q].mtime <= f[p].mtime}

\* the holders of working file `slot` whose copy has the greatest
\* modification time in f
TopHolders(f, slot) ==
    {a \in Holders(f, slot) :
        \A b \in Holders(f, slot) :
            f[WorkPath(b, slot)].mtime <= f[WorkPath(a, slot)].mtime}

\* the first agent of the installed list that is in S
FirstListed(S) ==
    agents[CHOOSE k \in 1..Len(agents) :
               agents[k] \in S /\ \A m \in 1..(k - 1) : agents[m] \notin S]

\* C29: among candidates of equal greatest modification time the winner is the
\* one of the agent that comes first in the installed list: for
\* sync_context_files the first agent whose context file is one of the newest
\* (so, for a shared path, the first agent that uses it), for
\* sync_agent_working_files, for each relative path, the first agent that
\* holds one of the newest copies.
C29_TieBreak ==
    /\ (last.op = "context" /\ ExistingContext(snap.fs) # {}) =>
           LET first == FirstListed({a \in Range(agents) :
                                        AGENT_CONTEXT_PATHS(a) \in TopContext(snap.fs)})
           IN  /\ Len(last.winners) = 1
               /\ last.winners[1].agent = first
               /\ last.winners[1].path = AGENT_CONTEXT_PATHS(first)
               /\ \A i \in 1..Len(last.writes) :
                      fs[last.writes[i].path].content =
                          format_context_for_agent(
                              last.writes[i].agent,
                              extract_markdown_body(
                                  snap.fs[AGENT_CONTEXT_PATHS(first)].content))
    /\ last.op = "working" =>
           \A i \in 1..Len(last.winners) :
               LET slot == SlotOf(last.winners[i])
                   first == FirstListed(TopHolders(snap.fs, slot))
               IN  /\ last.winners[i].agent = first
                   /\ \A a \in Range(agents) :
                          WorkPath(a, slot) \notin DOMAIN snap.fs =>
                              fs[WorkPath(a, slot)] = snap.fs[WorkPath(first, slot)]

\* a context pass on two newest context files of the same modification time
\* and different bodies, neither of them the first agent's, that wrote the
\* first agent's file
C29_Witness ==
    /\ last.op = "context"
    /\ Cardinality(TopContext(snap.fs)) >= 2
    /\ AGENT_CONTEXT_PATHS(agents[1]) \notin TopContext(snap.fs)
    /\ \E p, q \in TopContext(snap.fs) :
           extract_markdown_body(snap.fs[p].content)
               # extract_markdown_body(snap.fs[q].content)
    /\ AGENT_CONTEXT_PATHS(agents[1]) \in WrittenPaths

\* a working pass on two newest copies of one file with equal modification
\* time and different bytes, copied to an agent that had none
WorkingTieBroken ==
    /\ last.op = "working"
    /\ \E s \in WorkSlots :
           /\ Cardinality(TopHolders(snap.fs, s)) >= 2
           /\ \E a, b \in TopHolders(snap.fs, s) :
                  snap.fs[WorkPath(a, s)].content # snap.fs[WorkPath(b, s)].content
           /\ \E a \in Range(agents) :
                  /\ WorkPath(a, s) \notin DOMAIN snap.fs
                  /\ WorkPath(a, s) \in DOMAIN fs

(***************************************************************************)
(* Command regeneration and the context files (Spec).                      *)
(***************************************************************************)
\* the context file of agent a is what it was before the last step: absent
\* as before, or the same bytes with the same modification time
ContextKept(a) ==
    LET p == AGENT_CONTEXT_PATHS(a)
    IN  /\ (p \in DOMAIN fs) <=> (p \in DOMAIN snap.fs)
        /\ p \in DOMAIN fs => fs[p] = snap.fs[p]

\* C30: the regeneration of the commands in update, the copy of the
\* agent-specific static files included, creates no context file of an
\* installed agent, overwrites none and changes the modification time of
\* none.
C30_ContextUndisturbed ==
    last.op = "commands" => \A a \in Range(agents) : ContextKept(a)

\* the context files of the agents for which the source holds no static file
\* of that name are kept
OtherContextUndisturbed ==
    last.op = "commands" =>
        \A a \in Range(agents) :
            <<"agent_templates", a, Name(AGENT_CONTEXT_PATHS(a))>>
                \notin DOMAIN src.bundled.files
            => ContextKept(a)

====
